---- MODULE Spec2Model ----
(***************************************************************************)
(* Request conditioning pipeline of kiro.rs-plus:                          *)
(*   src/src/anthropic/compressor.rs  (compression passes, pairing repair) *)
(*   src/src/anthropic/handlers.rs    (adaptive shrink loop, byte budget   *)
(*                                     pre-check, SSE stream assembly)     *)
(*                                                                         *)
(* A Rust String is a sequence of code points.  A code point is a          *)
(* one-character TLA+ string, except CJK, which stands for one code point  *)
(* of three UTF-8 bytes (such as U+4F60).  chars().count() is Len and      *)
(* len() is Utf8Len.                                                       *)
(***************************************************************************)
EXTENDS Integers, Sequences, FiniteSets, TLC

\* ------------------------------------------------------------------------
\* Strings

NL == "\n"
SP == " "
CJK == "CJK"

Rep(c, k) == [i \in 1..k |-> c]

\* str::len(): the UTF-8 byte length.
Utf8Len(s) == Len(s) + 2 * Cardinality({i \in 1..Len(s) : s[i] = CJK})

Min(S) == CHOOSE x \in S : \A y \in S : x <= y

\* a.saturating_sub(b)
saturating_sub(a, b) == IF a >= b THEN a - b ELSE 0

DigitChars == <<"0", "1", "2", "3", "4", "5", "6", "7", "8", "9">>

\* format!("{}", n) of an unsigned integer.
RECURSIVE Dec(_)
Dec(n) == IF n < 10 THEN <<DigitChars[n + 1]>>
          ELSE Dec(n \div 10) \o <<DigitChars[(n % 10) + 1]>>

\* str::find(pat): the 1-based position of the first match, 0 for None.
find(text, pat) ==
    LET hits == {i \in 1..(Len(text) - Len(pat) + 1) :
                    text[i] = pat[1] /\ SubSeq(text, i, i + Len(pat) - 1) = pat}
    IN IF hits = {} THEN 0 ELSE Min(hits)

contains(text, pat) == find(text, pat) # 0

\* The elements of a finite set of numbers in increasing order.
SortedSeq(S) ==
    [k \in 1..Cardinality(S) |->
        CHOOSE x \in S : Cardinality({y \in S : y < x}) = k - 1]

\* str::split('\n'): always at least one piece.
split_nl(text) ==
    LET p == SortedSeq({i \in 1..Len(text) : text[i] = NL})
        n == Len(p)
    IN [k \in 1..(n + 1) |->
          SubSeq(text, IF k = 1 THEN 1 ELSE p[k - 1] + 1,
                       IF k = n + 1 THEN Len(text) ELSE p[k] - 1)]

\* str::lines(): as split('\n') but a final empty piece is not a line.
lines(text) ==
    LET parts == split_nl(text)
    IN IF parts[Len(parts)] = <<>> THEN SubSeq(parts, 1, Len(parts) - 1)
       ELSE parts

\* [&str]::join("\n")
RECURSIVE join_nl(_)
join_nl(ls) == IF Len(ls) = 0 THEN <<>>
               ELSE IF Len(ls) = 1 THEN ls[1]
               ELSE ls[1] \o <<NL>> \o join_nl(Tail(ls))

\* str::trim_end(): drops trailing white space.
RECURSIVE trim_end(_)
trim_end(s) == IF Len(s) > 0 /\ s[Len(s)] \in {SP, NL}
               THEN trim_end(SubSeq(s, 1, Len(s) - 1))
               ELSE s

\* compressor.rs: safe_char_truncate
safe_char_truncate(text, max_chars) ==
    IF Len(text) > max_chars THEN SubSeq(text, 1, max_chars) ELSE text

\* ------------------------------------------------------------------------
\* Literals of compressor.rs

THINK_OPEN == <<"<", "t", "h", "i", "n", "k", "i", "n", "g", ">">>
THINK_CLOSE == <<"<", "/", "t", "h", "i", "n", "k", "i", "n", "g", ">">>
\* "...[truncated]"
MARK_THINK == <<".", ".", ".", "[", "t", "r", "u", "n", "c", "a", "t", "e", "d", "]">>
\* "\n... ["
MARK_OPEN == <<NL, ".", ".", ".", SP, "[">>
\* " chars omitted] ...\n"
MARK_CHARS_OMITTED ==
    <<SP, "c", "h", "a", "r", "s", SP, "o", "m", "i", "t", "t", "e", "d", "]",
      SP, ".", ".", ".", NL>>
\* " lines omitted ("
MARK_LINES_OMITTED ==
    <<SP, "l", "i", "n", "e", "s", SP, "o", "m", "i", "t", "t", "e", "d", SP, "(">>
\* " chars)] ...\n"
MARK_CHARS_CLOSE == <<SP, "c", "h", "a", "r", "s", ")", "]", SP, ".", ".", ".", NL>>
\* "...[truncated "
MARK_TRUNCATED == <<".", ".", ".", "[", "t", "r", "u", "n", "c", "a", "t", "e", "d", SP>>
\* " chars]"
MARK_CHARS == <<SP, "c", "h", "a", "r", "s", "]">>
\* "\n...[content truncated, "
MARK_CONTENT ==
    <<NL, ".", ".", ".", "[", "c", "o", "n", "t", "e", "n", "t", SP,
      "t", "r", "u", "n", "c", "a", "t", "e", "d", ",", SP>>
\* " chars omitted]"
MARK_OMITTED == <<SP, "c", "h", "a", "r", "s", SP, "o", "m", "i", "t", "t", "e", "d", "]">>

\* ------------------------------------------------------------------------
\* Whitespace pass

RECURSIVE cw_loop(_, _, _, _)
cw_loop(ls, k, result, consecutive_empty) ==
    IF k > Len(ls) THEN result
    ELSE LET trimmed_end == trim_end(ls[k]) IN
         IF trimmed_end = <<>>
         THEN cw_loop(ls, k + 1,
                      IF consecutive_empty + 1 <= 2 /\ result # <<>>
                      THEN Append(result, NL) ELSE result,
                      consecutive_empty + 1)
         ELSE cw_loop(ls, k + 1,
                      (IF result # <<>> THEN Append(result, NL) ELSE result)
                          \o trimmed_end,
                      0)

compress_whitespace(text) == cw_loop(split_nl(text), 1, <<>>, 0)

\* The field after compress_string_field; the bytes saved are the difference.
compress_string_field_unguarded(field) ==
    LET compressed == compress_whitespace(field)
    IN IF Utf8Len(compressed) < Utf8Len(field) THEN compressed ELSE field

compress_string_field(field) ==
    IF field = <<SP>> THEN field
    ELSE LET compressed == compress_whitespace(field)
         IN IF Utf8Len(compressed) < Utf8Len(field) THEN compressed ELSE field

\* ------------------------------------------------------------------------
\* Thinking pass

RECURSIVE rtb_loop(_, _)
rtb_loop(result, remaining) ==
    LET start == find(remaining, THINK_OPEN) IN
    IF start = 0 THEN result \o remaining
    ELSE LET from == SubSeq(remaining, start, Len(remaining))
             end == find(from, THINK_CLOSE)
             pushed == result \o SubSeq(remaining, 1, start - 1)
         IN IF end = 0 THEN rtb_loop(pushed, <<>>)
            ELSE rtb_loop(pushed,
                          SubSeq(from, end + Len(THINK_CLOSE), Len(from)))

remove_thinking_blocks(text) == rtb_loop(<<>>, text)

RECURSIVE ttb_loop(_, _, _)
ttb_loop(result, remaining, max_chars) ==
    LET start == find(remaining, THINK_OPEN) IN
    IF start = 0 THEN result \o remaining
    ELSE LET pushed == result \o SubSeq(remaining, 1, start - 1)
             after_tag == SubSeq(remaining, start + Len(THINK_OPEN), Len(remaining))
             end == find(after_tag, THINK_CLOSE)
         IN IF end # 0
            THEN LET thinking_content == SubSeq(after_tag, 1, end - 1)
                     truncated == safe_char_truncate(thinking_content, max_chars)
                 IN ttb_loop(pushed \o THINK_OPEN \o truncated
                               \o (IF Utf8Len(truncated) < Utf8Len(thinking_content)
                                   THEN MARK_THINK ELSE <<>>)
                               \o THINK_CLOSE,
                             SubSeq(after_tag, end + Len(THINK_CLOSE), Len(after_tag)),
                             max_chars)
            ELSE ttb_loop(pushed \o THINK_OPEN
                               \o safe_char_truncate(after_tag, max_chars)
                               \o MARK_THINK \o THINK_CLOSE,
                          <<>>, max_chars)

truncate_thinking_blocks(text, max_chars) == ttb_loop(<<>>, text, max_chars)

\* ------------------------------------------------------------------------
\* Tool-result smart truncation

\* smart_truncate_by_lines without the hard cut of its line branch.
smart_truncate_by_lines_uncut(text, max_chars, head_lines, tail_lines) ==
    LET char_count == Len(text)
        ls == lines(text)
        total_lines == Len(ls)
    IN IF char_count <= max_chars THEN text
       ELSE IF total_lines <= head_lines + tail_lines
       THEN LET half == max_chars \div 2
                head == safe_char_truncate(text, half)
                tail_chars == saturating_sub(max_chars, Len(head))
                back == saturating_sub(tail_chars, 1) + 1
                tail == IF back <= char_count
                        THEN SubSeq(text, char_count - back + 1, char_count)
                        ELSE text
                omitted == saturating_sub(char_count, Len(head) + Len(tail))
            IN head \o MARK_OPEN \o Dec(omitted) \o MARK_CHARS_OMITTED \o tail
       ELSE LET head_part == join_nl(SubSeq(ls, 1, head_lines))
                tail_part == join_nl(SubSeq(ls, total_lines - tail_lines + 1, total_lines))
                omitted_lines == total_lines - head_lines - tail_lines
                omitted_chars ==
                    saturating_sub(char_count, Len(head_part) + Len(tail_part))
            IN head_part \o MARK_OPEN \o Dec(omitted_lines)
                 \o MARK_LINES_OMITTED \o Dec(omitted_chars)
                 \o MARK_CHARS_CLOSE \o tail_part

\* The result of smart_truncate_by_lines; its second component, saved, is
\* saturating_sub(Utf8Len(text), Utf8Len(result)).
smart_truncate_by_lines(text, max_chars, head_lines, tail_lines) ==
    LET char_count == Len(text)
        ls == lines(text)
        total_lines == Len(ls)
    IN IF char_count <= max_chars THEN text
       ELSE IF total_lines <= head_lines + tail_lines
       THEN LET half == max_chars \div 2
                head == safe_char_truncate(text, half)
                tail_chars == saturating_sub(max_chars, Len(head))
                \* char_indices().rev().nth(tail_chars.saturating_sub(1))
                back == saturating_sub(tail_chars, 1) + 1
                tail == IF back <= char_count
                        THEN SubSeq(text, char_count - back + 1, char_count)
                        ELSE text
                omitted == saturating_sub(char_count, Len(head) + Len(tail))
            IN head \o MARK_OPEN \o Dec(omitted) \o MARK_CHARS_OMITTED \o tail
       ELSE LET head_part == join_nl(SubSeq(ls, 1, head_lines))
                tail_part == join_nl(SubSeq(ls, total_lines - tail_lines + 1, total_lines))
                omitted_lines == total_lines - head_lines - tail_lines
                omitted_chars ==
                    saturating_sub(char_count, Len(head_part) + Len(tail_part))
                result == head_part \o MARK_OPEN \o Dec(omitted_lines)
                            \o MARK_LINES_OMITTED \o Dec(omitted_chars)
                            \o MARK_CHARS_CLOSE \o tail_part
            IN IF Len(result) > max_chars
               THEN safe_char_truncate(result, max_chars)
               ELSE result

\* A ToolResult's content is the sequence of its "text" strings.
truncate_tool_result_content(content, max_chars, head_lines, tail_lines) ==
    [k \in 1..Len(content) |->
        IF Len(content[k]) > max_chars
        THEN smart_truncate_by_lines(content[k], max_chars, head_lines, tail_lines)
        ELSE content[k]]

truncate_tool_results(results, max_chars, head_lines, tail_lines) ==
    [k \in 1..Len(results) |->
        [results[k] EXCEPT !.content =
            truncate_tool_result_content(@, max_chars, head_lines, tail_lines)]]

IsUser(msg) == msg.role = "user"
IsAssistant(msg) == msg.role = "assistant"

compress_tool_results_pass(state, max_chars, head_lines, tail_lines) ==
    [history |->
        [i \in 1..Len(state.history) |->
            IF IsUser(state.history[i])
            THEN [state.history[i] EXCEPT !.tool_results =
                    truncate_tool_results(@, max_chars, head_lines, tail_lines)]
            ELSE state.history[i]],
     current_message |->
        [state.current_message EXCEPT !.tool_results =
            truncate_tool_results(@, max_chars, head_lines, tail_lines)]]

\* ------------------------------------------------------------------------
\* Tool-use input truncation.  A serde_json::Value is
\*   [t |-> "str", v |-> string], [t |-> "num", v |-> number],
\*   [t |-> "arr", v |-> sequence of values] or
\*   [t |-> "obj", v |-> sequence of [k |-> key, v |-> value]].

\* The bytes (or, with bytes = FALSE, the code points) of the JSON text of
\* a string: the quotes, and a newline written as two characters.
json_str_len(s, bytes) ==
    Len("\"\"") + (IF bytes THEN Utf8Len(s) ELSE Len(s))
        + Cardinality({i \in 1..Len(s) : s[i] = NL})

RECURSIVE SumSeq(_)
SumSeq(q) == IF Len(q) = 0 THEN 0 ELSE q[1] + SumSeq(Tail(q))

\* n elements are separated by n - 1 commas.
commas(n) == saturating_sub(n, 1)

RECURSIVE json_len(_, _)
json_len(value, bytes) ==
    CASE value.t = "str" -> json_str_len(value.v, bytes)
      [] value.t = "num" -> Len(Dec(value.v))
      [] value.t = "arr" ->
            Len("[]") + commas(Len(value.v))
              + SumSeq([k \in 1..Len(value.v) |-> json_len(value.v[k], bytes)])
      [] value.t = "obj" ->
            Len("{}") + commas(Len(value.v))
              + SumSeq([k \in 1..Len(value.v) |->
                          json_str_len(value.v[k].k, bytes) + Len(":")
                            + json_len(value.v[k].v, bytes)])

\* The strings of a JSON value, in order.
RECURSIVE StringsOf(_)
StringsOf(value) ==
    CASE value.t = "str" -> <<value.v>>
      [] value.t = "arr" ->
            IF value.v = <<>> THEN <<>>
            ELSE StringsOf(value.v[1]) \o StringsOf([value EXCEPT !.v = Tail(@)])
      [] value.t = "obj" ->
            IF value.v = <<>> THEN <<>>
            ELSE StringsOf(value.v[1].v) \o StringsOf([value EXCEPT !.v = Tail(@)])
      [] OTHER -> <<>>

truncate_json_string_always_marked(s, max_chars) ==
    LET original_char_count == Len(s) IN
    IF original_char_count > max_chars
    THEN safe_char_truncate(s, max_chars) \o MARK_TRUNCATED
           \o Dec(saturating_sub(original_char_count, max_chars)) \o MARK_CHARS
    ELSE s

truncate_json_string(s, max_chars) ==
    LET original_char_count == Len(s) IN
    IF original_char_count > max_chars
    THEN LET truncated == safe_char_truncate(s, max_chars)
             omitted_chars == saturating_sub(original_char_count, max_chars)
             with_marker == truncated \o MARK_TRUNCATED \o Dec(omitted_chars)
                              \o MARK_CHARS
         IN IF Utf8Len(with_marker) < Utf8Len(s) THEN with_marker ELSE truncated
    ELSE s

RECURSIVE truncate_json_value_strings(_, _)
truncate_json_value_strings(value, max_chars) ==
    CASE value.t = "str" -> [value EXCEPT !.v = truncate_json_string(@, max_chars)]
      [] value.t = "obj" ->
            [value EXCEPT !.v =
                [k \in 1..Len(@) |->
                    [@[k] EXCEPT !.v = truncate_json_value_strings(@, max_chars)]]]
      [] value.t = "arr" ->
            [value EXCEPT !.v =
                [k \in 1..Len(@) |-> truncate_json_value_strings(@[k], max_chars)]]
      [] OTHER -> value

\* Option<Vec<ToolUseEntry>>
NoToolUses == [some |-> FALSE, v |-> <<>>]
SomeToolUses(v) == [some |-> TRUE, v |-> v]

compress_tool_use_inputs_pass(state, max_chars) ==
    [state EXCEPT !.history =
        [i \in 1..Len(@) |->
            IF IsAssistant(@[i]) /\ @[i].tool_uses.some
            THEN [@[i] EXCEPT !.tool_uses.v =
                    [k \in 1..Len(@) |->
                        IF json_len(@[k].input, FALSE) > max_chars
                        THEN [@[k] EXCEPT !.input =
                                truncate_json_value_strings(@, max_chars)]
                        ELSE @[k]]]
            ELSE @[i]]]

\* ------------------------------------------------------------------------
\* Whitespace and thinking passes over the conversation

compress_whitespace_pass(state) ==
    [history |->
        [i \in 1..Len(state.history) |->
            [state.history[i] EXCEPT !.content = compress_string_field(@)]],
     current_message |->
        [state.current_message EXCEPT !.content = compress_string_field(@)]]

THINKING_TRUNCATE_CHARS == 500

compress_thinking_pass(state, strategy) ==
    [state EXCEPT !.history =
        [i \in 1..Len(@) |->
            IF IsAssistant(@[i])
            THEN [@[i] EXCEPT !.content =
                    CASE strategy = "discard" -> remove_thinking_blocks(@)
                      [] strategy = "truncate" ->
                            truncate_thinking_blocks(@, THINKING_TRUNCATE_CHARS)
                      [] OTHER -> @]
            ELSE @[i]]]

\* ------------------------------------------------------------------------
\* History truncation

preserve_count == 2

\* Vec::remove(preserve_count), twice.
remove_turn_from_front(history) ==
    SubSeq(history, 3, Len(history))

remove_turn(history) ==
    SubSeq(history, 1, preserve_count)
        \o SubSeq(history, preserve_count + 3, Len(history))

RECURSIVE truncate_by_turns_inclusive(_, _)
truncate_by_turns_inclusive(history, max_messages) ==
    IF Len(history) >= max_messages /\ Len(history) > preserve_count + 2
    THEN truncate_by_turns_inclusive(remove_turn(history), max_messages)
    ELSE history

RECURSIVE truncate_by_turns(_, _)
truncate_by_turns(history, max_messages) ==
    IF Len(history) > max_messages /\ Len(history) > preserve_count + 2
    THEN truncate_by_turns(remove_turn(history), max_messages)
    ELSE history

total_chars(history) == SumSeq([i \in 1..Len(history) |-> Len(history[i].content)])

\* The character sub-pass removing one message at a time.
RECURSIVE truncate_by_chars_by_message(_, _)
truncate_by_chars_by_message(history, max_chars) ==
    IF total_chars(history) <= max_chars \/ Len(history) <= preserve_count + 2
    THEN history
    ELSE truncate_by_chars_by_message(
             SubSeq(history, 1, preserve_count)
                 \o SubSeq(history, preserve_count + 2, Len(history)),
             max_chars)

RECURSIVE truncate_by_chars(_, _)
truncate_by_chars(history, max_chars) ==
    IF total_chars(history) <= max_chars \/ Len(history) <= preserve_count + 2
    THEN history
    ELSE truncate_by_chars(remove_turn(history), max_chars)

compress_history_pass(state, max_turns, max_chars) ==
    LET by_turns == IF max_turns > 0
                    THEN truncate_by_turns(state.history, preserve_count + max_turns * 2)
                    ELSE state.history
        by_chars == IF max_chars > 0 THEN truncate_by_chars(by_turns, max_chars)
                    ELSE by_turns
    IN [state EXCEPT !.history = by_chars]

\* ------------------------------------------------------------------------
\* Pairing repair

Range(q) == {q[k] : k \in 1..Len(q)}

\* Vec::retain
RECURSIVE retain(_, _)
retain(q, ids) ==
    IF Len(q) = 0 THEN <<>>
    ELSE (IF q[1].tool_use_id \in ids THEN <<q[1]>> ELSE <<>>) \o retain(Tail(q), ids)

history_tool_use_ids(history) ==
    UNION {IF IsAssistant(history[i]) /\ history[i].tool_uses.some
           THEN {tu.tool_use_id : tu \in Range(history[i].tool_uses.v)}
           ELSE {} : i \in 1..Len(history)}

all_tool_result_ids(state) ==
    UNION {IF IsUser(state.history[i])
           THEN {tr.tool_use_id : tr \in Range(state.history[i].tool_results)}
           ELSE {} : i \in 1..Len(state.history)}
      \cup {tr.tool_use_id : tr \in Range(state.current_message.tool_results)}

\* Steps 1 and 2 left out: every tool result is kept.
remove_orphan_tool_results_never(state) == state

\* Steps 1 and 2 of repair_tool_pairing_pass.
remove_orphan_tool_results(state) ==
    LET tool_use_ids == history_tool_use_ids(state.history) IN
    [history |->
        [i \in 1..Len(state.history) |->
            IF IsUser(state.history[i])
            THEN [state.history[i] EXCEPT !.tool_results = retain(@, tool_use_ids)]
            ELSE state.history[i]],
     current_message |->
        [state.current_message EXCEPT !.tool_results = retain(@, tool_use_ids)]]

\* Steps 3 and 4 of repair_tool_pairing_pass.
remove_orphan_tool_uses(state) ==
    LET tool_result_ids == all_tool_result_ids(state) IN
    [state EXCEPT !.history =
        [i \in 1..Len(@) |->
            IF IsAssistant(@[i]) /\ @[i].tool_uses.some
            THEN LET kept == retain(@[i].tool_uses.v, tool_result_ids)
                 IN [@[i] EXCEPT !.tool_uses =
                        IF Len(kept) = 0 THEN NoToolUses ELSE SomeToolUses(kept)]
            ELSE @[i]]]

repair_tool_pairing_pass_results_only(state) == remove_orphan_tool_results(state)

repair_tool_pairing_pass(state) ==
    remove_orphan_tool_uses(remove_orphan_tool_results(state))

\* ------------------------------------------------------------------------
\* Long-message pass

truncate_long_content(field, max_chars) ==
    IF field = <<SP>> THEN field
    ELSE IF Len(field) <= max_chars THEN field
    ELSE safe_char_truncate(field, max_chars) \o MARK_CONTENT
           \o Dec(Len(field) - max_chars) \o MARK_OMITTED

\* The bytes truncate_long_content reports as saved.
truncate_long_content_saved(field, max_chars) ==
    IF field = <<SP>> \/ Len(field) <= max_chars THEN 0
    ELSE saturating_sub(Utf8Len(field), Utf8Len(truncate_long_content(field, max_chars)))

compress_long_messages_pass(state, max_chars) ==
    IF max_chars = 0 THEN state
    ELSE [history |->
            [i \in 1..Len(state.history) |->
                IF IsUser(state.history[i])
                THEN [state.history[i] EXCEPT !.content =
                        truncate_long_content(@, max_chars)]
                ELSE state.history[i]],
          current_message |->
            [state.current_message EXCEPT !.content =
                truncate_long_content(@, max_chars)]]

compress_long_messages_pass_saved(state, max_chars) ==
    IF max_chars = 0 THEN 0
    ELSE SumSeq([i \in 1..Len(state.history) |->
                    IF IsUser(state.history[i])
                    THEN truncate_long_content_saved(state.history[i].content, max_chars)
                    ELSE 0])
           + truncate_long_content_saved(state.current_message.content, max_chars)

\* ------------------------------------------------------------------------
\* The pipeline

\* Passes 1 to 4 of compress: whitespace, thinking, tool_result, tool_use.
compress_text_passes(state, config) ==
    LET s1 == IF config.whitespace_compression
              THEN compress_whitespace_pass(state) ELSE state
        s2 == IF config.thinking_strategy # "keep"
              THEN compress_thinking_pass(s1, config.thinking_strategy) ELSE s1
        s3 == IF config.tool_result_max_chars > 0
              THEN compress_tool_results_pass(s2, config.tool_result_max_chars,
                       config.tool_result_head_lines, config.tool_result_tail_lines)
              ELSE s2
    IN IF config.tool_use_input_max_chars > 0
       THEN compress_tool_use_inputs_pass(s3, config.tool_use_input_max_chars)
       ELSE s3

\* Pass 5 of compress: history truncation.
compress_history_step(state, config) ==
    IF config.max_history_turns > 0 \/ config.max_history_chars > 0
    THEN compress_history_pass(state, config.max_history_turns,
                               config.max_history_chars)
    ELSE state

compress_repairing_always(state, config) ==
    IF ~config.enabled THEN repair_tool_pairing_pass(state)
    ELSE repair_tool_pairing_pass(
             compress_history_step(compress_text_passes(state, config), config))

compress(state, config) ==
    IF ~config.enabled THEN state
    ELSE repair_tool_pairing_pass(
             compress_history_step(compress_text_passes(state, config), config))

\* CompressionStats::default()
ZeroStats ==
    [whitespace_saved |-> 0, thinking_saved |-> 0, tool_result_saved |-> 0,
     tool_use_input_saved |-> 0, history_turns_removed |-> 0,
     history_bytes_saved |-> 0]

\* What a pass adds to saved for one field: original_len - new_len when the
\* field became shorter, 0 otherwise.
field_saved(before, after) == saturating_sub(Utf8Len(before), Utf8Len(after))

\* The content fields of a conversation, history first.
ContentsOf(state) ==
    [i \in 1..Len(state.history) |-> state.history[i].content]
        \o <<state.current_message.content>>

RECURSIVE Flatten(_)
Flatten(seqs) == IF seqs = <<>> THEN <<>> ELSE Head(seqs) \o Flatten(Tail(seqs))

\* The texts of the tool results of a conversation, history first.
ResultTextsOf(state) ==
    LET of(m) == IF m.role = "user"
                 THEN Flatten([k \in 1..Len(m.tool_results) |-> m.tool_results[k].content])
                 ELSE <<>>
    IN  Flatten([i \in 1..Len(state.history) |-> of(state.history[i])])
            \o of(state.current_message)

\* The strings of the tool_use inputs of the history.
InputStringsOf(state) ==
    LET of(m) == IF m.role = "assistant" /\ m.tool_uses.some
                 THEN Flatten([k \in 1..Len(m.tool_uses.v) |->
                                  StringsOf(m.tool_uses.v[k].input)])
                 ELSE <<>>
    IN  Flatten([i \in 1..Len(state.history) |-> of(state.history[i])])

\* The sum of what a pass saved on fields that it kept in place.
fields_saved(before, after) ==
    SumSeq([i \in 1..Len(before) |-> field_saved(before[i], after[i])])

\* msg_bytes summed over a history.
history_bytes(history) ==
    SumSeq([i \in 1..Len(history) |-> Utf8Len(history[i].content)])

\* The statistics compress returns.
compress_stats(state, config) ==
    IF ~config.enabled THEN ZeroStats
    ELSE LET s1 == IF config.whitespace_compression
                   THEN compress_whitespace_pass(state) ELSE state
             s2 == IF config.thinking_strategy # "keep"
                   THEN compress_thinking_pass(s1, config.thinking_strategy) ELSE s1
             s3 == IF config.tool_result_max_chars > 0
                   THEN compress_tool_results_pass(s2, config.tool_result_max_chars,
                            config.tool_result_head_lines, config.tool_result_tail_lines)
                   ELSE s2
             s4 == compress_text_passes(state, config)
             s5 == compress_history_step(s4, config)
         IN  [whitespace_saved |-> fields_saved(ContentsOf(state), ContentsOf(s1)),
              thinking_saved |-> fields_saved(ContentsOf(s1), ContentsOf(s2)),
              tool_result_saved |-> fields_saved(ResultTextsOf(s2), ResultTextsOf(s3)),
              tool_use_input_saved |->
                  fields_saved(InputStringsOf(s3), InputStringsOf(s4)),
              history_turns_removed |-> (Len(s4.history) - Len(s5.history)) \div 2,
              history_bytes_saved |-> history_bytes(s4.history) - history_bytes(s5.history)]

\* ------------------------------------------------------------------------
\* Serialization of the request (serde_json::to_string(&kiro_request)).
\* The JSON text is kept as the value it encodes together with its byte
\* length; the object keys are those of the Kiro conversation model.

tool_result_bytes(tr) ==
    Len("{\"toolUseId\":,\"content\":[],\"status\":\"success\"}")
      + Len("\"\"") + Len(tr.tool_use_id)
      + commas(Len(tr.content))
      + SumSeq([k \in 1..Len(tr.content) |->
                  Len("{\"text\":}") + json_str_len(tr.content[k], TRUE)])

tool_use_bytes(tu) ==
    Len("{\"toolUseId\":,\"name\":\"\",\"input\":}")
      + Len("\"\"") + Len(tu.tool_use_id)
      + json_len(tu.input, TRUE)

user_message_bytes(m) ==
    Len("{\"userInputMessage\":{\"content\":,\"userInputMessageContext\":{\"toolResults\":[],\"tools\":[]}}}")
      + json_str_len(m.content, TRUE)
      + commas(Len(m.tool_results))
      + SumSeq([k \in 1..Len(m.tool_results) |-> tool_result_bytes(m.tool_results[k])])
      + commas(Len(m.tools))
      + SumSeq([k \in 1..Len(m.tools) |->
                  Len("{\"toolSpecification\":{\"description\":}}")
                    + json_str_len(m.tools[k], TRUE)])

assistant_message_bytes(m) ==
    Len("{\"assistantResponseMessage\":{\"content\":}}")
      + json_str_len(m.content, TRUE)
      + (IF m.tool_uses.some
         THEN Len(",\"toolUses\":[]") + commas(Len(m.tool_uses.v))
                + SumSeq([k \in 1..Len(m.tool_uses.v) |-> tool_use_bytes(m.tool_uses.v[k])])
         ELSE 0)

message_bytes(m) ==
    IF IsUser(m) THEN user_message_bytes(m) ELSE assistant_message_bytes(m)

serialized_len(state) ==
    Len("{\"conversationState\":{\"currentMessage\":,\"history\":[]}}")
      + user_message_bytes(state.current_message)
      + commas(Len(state.history))
      + SumSeq([i \in 1..Len(state.history) |-> message_bytes(state.history[i])])

to_string(kiro_request) ==
    [json |-> kiro_request, len |-> serialized_len(kiro_request)]

\* ------------------------------------------------------------------------
\* handlers.rs: the adaptive shrink loop

ADAPTIVE_COMPRESSION_MAX_ITERS == 32
ADAPTIVE_MIN_TOOL_RESULT_MAX_CHARS == 512
ADAPTIVE_MIN_TOOL_USE_INPUT_MAX_CHARS == 256
ADAPTIVE_HISTORY_PRESERVE_MESSAGES == 2
ADAPTIVE_MIN_MESSAGE_CONTENT_MAX_CHARS == 8192
ADAPTIVE_DRAIN_MAX_MESSAGES == 16

Max2(a, b) == IF a >= b THEN a ELSE b
Min2(a, b) == IF a <= b THEN a ELSE b
MaxOf(S) == CHOOSE x \in S : \A y \in S : y <= x

has_any_tool_results_or_tools_of(state) ==
    \/ Len(state.current_message.tool_results) # 0
    \/ Len(state.current_message.tools) # 0
    \/ \E i \in 1..Len(state.history) :
          /\ IsUser(state.history[i])
          /\ \/ Len(state.history[i].tool_results) # 0
             \/ Len(state.history[i].tools) # 0

has_any_tool_uses_of(state) ==
    \E i \in 1..Len(state.history) :
        /\ IsAssistant(state.history[i])
        /\ state.history[i].tool_uses.some
        /\ Len(state.history[i].tool_uses.v) # 0

\* The largest chars().count() of a user content.
max_content_chars_of(state) ==
    MaxOf({Len(state.current_message.content)}
            \cup {Len(state.history[i].content) :
                    i \in {j \in 1..Len(state.history) : IsUser(state.history[j])}})

\* The largest len() of a user content.
max_single_user_content_bytes_of(state) ==
    MaxOf({Utf8Len(state.current_message.content)}
            \cup {Utf8Len(state.history[i].content) :
                    i \in {j \in 1..Len(state.history) : IsUser(state.history[j])}})

three_quarters_unfloored(x, floor) == (x * 3) \div 4

three_quarters(x, floor) == Max2((x * 3) \div 4, floor)

\* A drain of the first remove_msgs messages.
drain_from_front(history, preserve, remove_msgs) ==
    SubSeq(history, remove_msgs + 1, Len(history))

\* Vec::drain(preserve..preserve + remove_msgs)
drain(history, preserve, remove_msgs) ==
    SubSeq(history, 1, preserve)
        \o SubSeq(history, preserve + remove_msgs + 1, Len(history))

\* The loop body with the first two moves in the other order.
shrink_move_inputs_first(state, cfg, mc_max_chars, has_tr, has_tu, max_body) ==
    LET same == [state |-> state, cfg |-> cfg, mc |-> mc_max_chars,
                 changed |-> FALSE, turns |-> 0, used_mc |-> 0]
    IN
    IF has_tu /\ cfg.tool_use_input_max_chars > ADAPTIVE_MIN_TOOL_USE_INPUT_MAX_CHARS
    THEN LET next == three_quarters(cfg.tool_use_input_max_chars,
                                    ADAPTIVE_MIN_TOOL_USE_INPUT_MAX_CHARS)
         IN IF next < cfg.tool_use_input_max_chars
            THEN [same EXCEPT !.cfg.tool_use_input_max_chars = next, !.changed = TRUE]
            ELSE same
    ELSE IF has_tr /\ cfg.tool_result_max_chars > ADAPTIVE_MIN_TOOL_RESULT_MAX_CHARS
    THEN LET next == three_quarters(cfg.tool_result_max_chars,
                                    ADAPTIVE_MIN_TOOL_RESULT_MAX_CHARS)
         IN IF next < cfg.tool_result_max_chars
            THEN [same EXCEPT !.cfg.tool_result_max_chars = next, !.changed = TRUE]
            ELSE same
    ELSE IF /\ \/ max_single_user_content_bytes_of(state) > max_body
               \/ Len(state.history) <= ADAPTIVE_HISTORY_PRESERVE_MESSAGES + 2
            /\ mc_max_chars >= ADAPTIVE_MIN_MESSAGE_CONTENT_MAX_CHARS
    THEN [same EXCEPT
            !.state = compress_long_messages_pass(state, mc_max_chars),
            !.changed = compress_long_messages_pass_saved(state, mc_max_chars) > 0,
            !.used_mc = mc_max_chars,
            !.mc = three_quarters(mc_max_chars, ADAPTIVE_MIN_MESSAGE_CONTENT_MAX_CHARS)]
    ELSE IF Len(state.history) > ADAPTIVE_HISTORY_PRESERVE_MESSAGES + 2
    THEN LET preserve == ADAPTIVE_HISTORY_PRESERVE_MESSAGES
             min_len == preserve + 2
             removable == saturating_sub(Len(state.history), min_len)
             capped == Min2(removable, ADAPTIVE_DRAIN_MAX_MESSAGES)
             remove_msgs == capped - (capped % 2)
         IN IF remove_msgs > 0
            THEN [same EXCEPT
                    !.state.history = drain(state.history, preserve, remove_msgs),
                    !.turns = remove_msgs \div 2,
                    !.changed = TRUE]
            ELSE same
    ELSE same

\* The move of one loop iteration (handlers.rs 205-271), before compress is
\* rerun: the conversation, the working thresholds and the changed flag.
shrink_move(state, cfg, mc_max_chars, has_tr, has_tu, max_body) ==
    LET same == [state |-> state, cfg |-> cfg, mc |-> mc_max_chars,
                 changed |-> FALSE, turns |-> 0, used_mc |-> 0]
    IN
    IF has_tr /\ cfg.tool_result_max_chars > ADAPTIVE_MIN_TOOL_RESULT_MAX_CHARS
    THEN LET next == three_quarters(cfg.tool_result_max_chars,
                                    ADAPTIVE_MIN_TOOL_RESULT_MAX_CHARS)
         IN IF next < cfg.tool_result_max_chars
            THEN [same EXCEPT !.cfg.tool_result_max_chars = next, !.changed = TRUE]
            ELSE same
    ELSE IF has_tu /\ cfg.tool_use_input_max_chars > ADAPTIVE_MIN_TOOL_USE_INPUT_MAX_CHARS
    THEN LET next == three_quarters(cfg.tool_use_input_max_chars,
                                    ADAPTIVE_MIN_TOOL_USE_INPUT_MAX_CHARS)
         IN IF next < cfg.tool_use_input_max_chars
            THEN [same EXCEPT !.cfg.tool_use_input_max_chars = next, !.changed = TRUE]
            ELSE same
    ELSE IF /\ \/ max_single_user_content_bytes_of(state) > max_body
               \/ Len(state.history) <= ADAPTIVE_HISTORY_PRESERVE_MESSAGES + 2
            /\ mc_max_chars >= ADAPTIVE_MIN_MESSAGE_CONTENT_MAX_CHARS
    THEN [same EXCEPT
            !.state = compress_long_messages_pass(state, mc_max_chars),
            !.changed = compress_long_messages_pass_saved(state, mc_max_chars) > 0,
            !.used_mc = mc_max_chars,
            !.mc = three_quarters(mc_max_chars, ADAPTIVE_MIN_MESSAGE_CONTENT_MAX_CHARS)]
    ELSE IF Len(state.history) > ADAPTIVE_HISTORY_PRESERVE_MESSAGES + 2
    THEN LET preserve == ADAPTIVE_HISTORY_PRESERVE_MESSAGES
             min_len == preserve + 2
             removable == saturating_sub(Len(state.history), min_len)
             capped == Min2(removable, ADAPTIVE_DRAIN_MAX_MESSAGES)
             remove_msgs == capped - (capped % 2)
         IN IF remove_msgs > 0
            THEN [same EXCEPT
                    !.state.history = drain(state.history, preserve, remove_msgs),
                    !.turns = remove_msgs \div 2,
                    !.changed = TRUE]
            ELSE same
    ELSE same

\* ------------------------------------------------------------------------
\* Requests: the conversations and configurations the handler is run on

UserMsg(content, tool_results, tools) ==
    [role |-> "user", content |-> content, tool_results |-> tool_results,
     tools |-> tools]
AssistantMsg(content, tool_uses) ==
    [role |-> "assistant", content |-> content, tool_uses |-> tool_uses]
ToolResult(id, text) == [tool_use_id |-> id, content |-> <<text>>]
ToolUse(id, input) == [tool_use_id |-> id, input |-> input]
JStr(s) == [t |-> "str", v |-> s]
JObj1(key, value) == [t |-> "obj", v |-> <<[k |-> key, v |-> value]>>]
Conversation(history, current) == [history |-> history, current_message |-> current]

\* Bounds of the generated requests.
MaxTurns == 2
MaxPieces == 2
MaxTextPieces == 4
MaxChunks == 2
MaxPings == 2

ToolIds == {"t1", "t2"}

PathInput == JObj1(<<"p">>, JStr(<<"a">>))
Uses(ids) == SomeToolUses([k \in 1..Len(ids) |-> ToolUse(ids[k], PathInput)])
Results(ids) == [k \in 1..Len(ids) |-> ToolResult(ids[k], <<"o", "k">>)]

SystemPair == <<UserMsg(<<"s", "y", "s">>, <<>>, <<>>),
                AssistantMsg(<<"I", SP, "w", "i", "l", "l">>, NoToolUses)>>

\* One turn: a user message and the assistant's reply.
Turns ==
    {<<UserMsg(<<"h", "i">>, <<>>, <<>>), AssistantMsg(<<"o", "k">>, NoToolUses)>>}
      \cup {<<UserMsg(<<"h", "i">>, <<>>, <<>>), AssistantMsg(<<SP>>, Uses(<<id>>))>> :
              id \in ToolIds}
      \cup {<<UserMsg(<<SP>>, Results(<<id>>), <<>>), AssistantMsg(<<"o", "k">>, NoToolUses)>> :
              id \in ToolIds}
      \cup {<<UserMsg(<<SP>>, Results(<<"t1">>), <<>>), AssistantMsg(<<SP>>, Uses(<<"t2">>))>>}

RECURSIVE TurnSeqs(_)
TurnSeqs(n) ==
    IF n = 0 THEN {<<>>}
    ELSE TurnSeqs(n - 1) \cup {h \o t : h \in TurnSeqs(n - 1), t \in Turns}

Histories == {<<>>} \cup {SystemPair \o h : h \in TurnSeqs(MaxTurns)}

Currents ==
    {UserMsg(<<"g", "o">>, <<>>, <<>>),
     UserMsg(<<"g", "o">>, <<>>, << <<"R", "e", "a", "d">> >>)}
      \cup {UserMsg(<<SP>>, Results(<<id>>), <<>>) : id \in ToolIds}

DefaultConfig ==
    [enabled |-> TRUE, whitespace_compression |-> TRUE,
     thinking_strategy |-> "discard",
     tool_result_max_chars |-> 8000, tool_result_head_lines |-> 80,
     tool_result_tail_lines |-> 40, tool_use_input_max_chars |-> 6000,
     max_history_turns |-> 80, max_history_chars |-> 400000,
     max_request_body_bytes |-> 400000]

\* Requests that vary the shape of the conversation.
StructRequests ==
    {[conversation |-> Conversation(h, c),
      config |-> [DefaultConfig EXCEPT !.enabled = cfg[1],
                                       !.tool_result_max_chars = 600,
                                       !.tool_use_input_max_chars = 300,
                                       !.max_history_turns = cfg[2],
                                       !.max_history_chars = cfg[3],
                                       !.max_request_body_bytes = cfg[4]]] :
        h \in Histories, c \in Currents,
        cfg \in {<<TRUE, 0, 0, 0>>, <<TRUE, 0, 0, 1>>, <<TRUE, 0, 0, 700>>,
                 <<TRUE, 1, 0, 1>>, <<TRUE, 1, 0, 700>>, <<TRUE, 0, 20, 700>>,
                 <<FALSE, 1, 0, 0>>, <<FALSE, 1, 0, 1>>}}

\* Requests that vary one text of a fixed conversation: the assistant
\* content, the tool_use input, the tool_result text, a user content.
TextConversation(sys, asst, input, result, cur) ==
    Conversation(<<UserMsg(sys, <<>>, <<>>),
                   AssistantMsg(asst, SomeToolUses(<<ToolUse("t1", JObj1(<<"c">>, JStr(input)))>>))>>,
                 UserMsg(cur, <<ToolResult("t1", result)>>, <<>>))

RECURSIVE Concats(_, _)
Concats(pieces, n) ==
    IF n = 0 THEN {<<>>}
    ELSE Concats(pieces, n - 1) \cup {x \o y : x \in Concats(pieces, n - 1), y \in pieces}

ThinkingPieces == {THINK_OPEN, THINK_CLOSE, <<"<">>, <<"t", "h", "i", "n", "k", "i", "n", "g", ">">>,
                   <<"a", SP, NL>>}

AssistantTexts ==
    Concats(ThinkingPieces, MaxPieces)
      \cup {THINK_OPEN \o Rep("a", THINKING_TRUNCATE_CHARS + 1) \o THINK_CLOSE,
            THINK_OPEN \o Rep(CJK, THINKING_TRUNCATE_CHARS + 20) \o THINK_CLOSE \o <<"b">>}

ResultTexts ==
    {<<"o", "k">>, Rep("x", 11), Rep("x", 40), Rep(CJK, 11),
     <<"a", NL, "b", "b", NL, "c", "c", "c", NL, "d", "d", "d", "d", NL, "e">>,
     <<"a", "a", "a", "a", "a", "a", NL, "b", "b", "b", "b", "b", "b", NL,
       "c", "c", "c", "c", "c", "c">>,
     Rep("x", ADAPTIVE_MIN_TOOL_RESULT_MAX_CHARS + 8)}

InputTexts ==
    {<<"a">>, Rep("a", 7), Rep("a", 40), Rep(CJK, 7), Rep(CJK, 40),
     Rep("a", ADAPTIVE_MIN_TOOL_USE_INPUT_MAX_CHARS + 8)}

UserTexts ==
    {<<SP>>, <<"h", "i", SP, SP, NL, NL, NL, NL, "x", SP>>, <<SP, SP>>,
     Rep("a", ADAPTIVE_MIN_MESSAGE_CONTENT_MAX_CHARS + 1),
     Rep("a", ADAPTIVE_MIN_MESSAGE_CONTENT_MAX_CHARS + 100)}

TextConfig(ws, strategy, caps, max_body) ==
    [DefaultConfig EXCEPT !.whitespace_compression = ws,
                          !.thinking_strategy = strategy,
                          !.tool_result_max_chars = caps[1],
                          !.tool_result_head_lines = 1,
                          !.tool_result_tail_lines = 1,
                          !.tool_use_input_max_chars = caps[2],
                          !.max_history_turns = 0,
                          !.max_history_chars = 0,
                          !.max_request_body_bytes = max_body]

SmallCaps == <<10, 6>>
NearFloorCaps == <<600, 300>>
ToolCaps == {<<0, 0>>, SmallCaps, NearFloorCaps}
Budgets == {0, 1, 700}

TextRequests ==
    {[conversation |-> TextConversation(<<"s">>, a, <<"a">>, <<"o", "k">>, <<SP>>),
      config |-> TextConfig(ws, strategy, SmallCaps, max_body)] :
        a \in AssistantTexts, ws \in BOOLEAN,
        strategy \in {"keep", "truncate", "discard"}, max_body \in {0, 1}}
      \cup
    {[conversation |-> TextConversation(<<"s">>, <<"o", "k">>, <<"a">>, r, <<SP>>),
      config |-> TextConfig(TRUE, "keep", caps, max_body)] :
        r \in ResultTexts, caps \in ToolCaps, max_body \in Budgets}
      \cup
    {[conversation |-> TextConversation(<<"s">>, <<"o", "k">>, i, <<"o", "k">>, <<SP>>),
      config |-> TextConfig(TRUE, "keep", caps, max_body)] :
        i \in InputTexts, caps \in ToolCaps, max_body \in Budgets}
      \cup
    {[conversation |-> TextConversation(u[1], <<"o", "k">>, <<"a">>, <<"o", "k">>, u[2]),
      config |-> TextConfig(ws, "keep", SmallCaps, max_body)] :
        u \in (UserTexts \X {<<SP>>}) \cup ({<<"s">>} \X UserTexts),
        ws \in BOOLEAN, max_body \in Budgets}
      \cup
    {[conversation |-> TextConversation(<<"s">>, <<"o", "k">>, <<"a">>, <<"o", "k">>, <<SP>>),
      config |-> [DefaultConfig EXCEPT !.tool_result_max_chars = 1000000,
                                       !.max_request_body_bytes = 1]]}

\* Requests with a long history of short messages, each with its own
\* content: n turns after the system pair. With paired, the assistant of
\* turn 8 uses a tool and the user of turn 9 carries its result.
LongHistory(n, paired) ==
    SystemPair \o
    [i \in 1..(2 * n) |->
        IF i % 2 = 1
        THEN UserMsg(<<"q">> \o Dec(i),
                     IF paired /\ i = 17 THEN Results(<<"t1">>) ELSE <<>>, <<>>)
        ELSE AssistantMsg(<<"r">> \o Dec(i),
                          IF paired /\ i = 16 THEN Uses(<<"t1">>) ELSE NoToolUses)]

LongTurns == {9, 12}

LongRequests ==
    {[conversation |-> Conversation(LongHistory(n, paired),
                                    UserMsg(<<"g", "o">>, <<>>, <<>>)),
      config |-> [DefaultConfig EXCEPT !.tool_result_max_chars = 600,
                                       !.tool_use_input_max_chars = 300,
                                       !.max_history_turns = limits[1],
                                       !.max_history_chars = limits[2],
                                       !.max_request_body_bytes = budget]] :
        n \in LongTurns, paired \in BOOLEAN, budget \in {400, 700},
        limits \in {<<0, 0>>, <<5, 0>>, <<0, 40>>}}

Requests == StructRequests \cup TextRequests \cup LongRequests

\* ------------------------------------------------------------------------
\* The request handler (post_messages and post_messages_cc run the same
\* steps up to the dispatch).

VARIABLES
    pc,                  \* where the handler is
    config,              \* state.compression_config
    input_state,         \* the conversation as the normalizer produced it
    conversation_state,  \* kiro_request.conversation_state
    request_body,        \* the serialized request
    adaptive_config,     \* the loop's working copy of the config
    has_any_tool_results_or_tools,
    has_any_tool_uses,
    message_content_max_chars,
    outcome,             \* AdaptiveCompressionOutcome
    stats,               \* the CompressionStats convert_request got from compress
    response,            \* the HTTP status answered, 0 while there is none
    provider_calls       \* the bodies handed to the provider, with the mode

\* One function applied to one input: a text function of compressor.rs
\* applied to one string, or a classification applied to one value.
VARIABLES
    text_pc,             \* "idle", "ready", "applied", "twice"
    text_fn,             \* the function applied
    text_in,             \* its input
    text_cap,            \* its max_chars
    text_out,            \* its result
    text_again           \* its result on text_out

\* The SSE stream of one streaming response (create_sse_stream).
VARIABLES
    stream_pc,           \* "idle", "call", "initial", "processing", "closed", "failed"
    body_stream,         \* the upstream chunks not yet read, and how it ends
    ctx,                 \* the StreamContext
    finished,            \* the unfold state's flag
    ping_ticks,          \* ticks of ping_interval taken
    ping_ready,          \* ping_interval has a tick due
    sse                  \* the events yielded to the client, in order

\* One non-stream response (handle_non_stream_request).
VARIABLES
    reply_pc,            \* "idle", "call", "decoding", "answered"
    body_bytes,          \* the response body, as the events it decodes to
    decode_iter,         \* the events of the response body not yet handled
    text_content,
    tool_uses,           \* the tool_use blocks pushed so far
    has_tool_use,
    stop_reason,
    context_input_tokens,
    tool_json_buffers,   \* tool_use_id -> the input text accumulated
    warnings,            \* the parse failures logged, with the truncation detected
    context_window,      \* get_context_window_size(model)
    reply                \* the response returned, status 0 while there is none

\* The credential pool shared by the requests and the admin service
\* (MultiTokenManager), and one call of AdminService::set_disabled.
VARIABLES
    pool,                \* [disabled, current_index]
    admin_pc,            \* "idle", "snapshot", "switch", "returned"
    admin_index,         \* the call's index
    admin_disabled,      \* the call's disabled
    admin_current_index, \* the local current_index read from the snapshot
    admin_result         \* "none", "ok", "err"

pipeVars == <<pc, config, input_state, conversation_state, request_body,
              adaptive_config, has_any_tool_results_or_tools, has_any_tool_uses,
              message_content_max_chars, outcome, stats, response, provider_calls>>

textVars == <<text_pc, text_fn, text_in, text_cap, text_out, text_again>>

streamVars == <<stream_pc, body_stream, ctx, finished, ping_ticks, ping_ready,
               sse>>

replyVars == <<reply_pc, body_bytes, decode_iter, text_content, tool_uses, has_tool_use,
               stop_reason, context_input_tokens, tool_json_buffers, warnings,
               context_window, reply>>

adminVars == <<pool, admin_pc, admin_index, admin_disabled, admin_current_index,
               admin_result>>

vars == <<pipeVars, textVars, streamVars, replyVars, adminVars>>

NoOutcome ==
    [initial_bytes |-> 0, final_bytes |-> 0, iters |-> 0,
     additional_history_turns_removed |-> 0,
     final_tool_result_max_chars |-> 0, final_tool_use_input_max_chars |-> 0,
     final_message_content_max_chars |-> 0]

max_body == config.max_request_body_bytes

\* The byte pre-check before the dispatch.
over_budget_if_compressing(body_len, budget) ==
    budget > 0 /\ body_len > budget /\ config.enabled

over_budget(body_len, budget) ==
    budget > 0 /\ body_len > budget

NoContext == [block_open |-> FALSE]

AdminIdle ==
    /\ pool = [disabled |-> <<>>, current_index |-> 0]
    /\ admin_pc = "idle"
    /\ admin_index = 0
    /\ admin_disabled = FALSE
    /\ admin_current_index = 0
    /\ admin_result = "none"

PipeIdle ==
    /\ pc = "idle"
    /\ config = DefaultConfig
    /\ input_state = Conversation(<<>>, UserMsg(<<SP>>, <<>>, <<>>))
    /\ conversation_state = input_state
    /\ request_body = [json |-> input_state, len |-> 0]
    /\ adaptive_config = DefaultConfig
    /\ has_any_tool_results_or_tools = FALSE
    /\ has_any_tool_uses = FALSE
    /\ message_content_max_chars = 0
    /\ outcome = NoOutcome
    /\ stats = ZeroStats
    /\ response = 0
    /\ provider_calls = <<>>

TextIdle ==
    /\ text_pc = "idle"
    /\ text_fn = "none"
    /\ text_in = <<>>
    /\ text_cap = 0
    /\ text_out = <<>>
    /\ text_again = <<>>

StreamIdle ==
    /\ stream_pc = "idle"
    /\ body_stream = [chunks |-> <<>>, ending |-> "end"]
    /\ ctx = NoContext
    /\ finished = FALSE
    /\ ping_ticks = 0
    /\ ping_ready = FALSE
    /\ sse = <<>>

None == [some |-> FALSE, v |-> 0]

Some(x) == [some |-> TRUE, v |-> x]

NoReply == [status |-> 0, type |-> "none", content |-> <<>>, stop_reason |-> "none",
            input_tokens |-> None]

ReplyIdle ==
    /\ reply_pc = "idle"
    /\ body_bytes = <<>>
    /\ decode_iter = <<>>
    /\ text_content = <<>>
    /\ tool_uses = <<>>
    /\ has_tool_use = FALSE
    /\ stop_reason = "end_turn"
    /\ context_input_tokens = None
    /\ tool_json_buffers = <<>>
    /\ warnings = <<>>
    /\ context_window = 0
    /\ reply = NoReply

PipeInit ==
    \E req \in Requests :
        /\ TextIdle /\ StreamIdle /\ ReplyIdle /\ AdminIdle
        /\ pc = "received"
        /\ config = req.config
        /\ input_state = req.conversation
        /\ conversation_state = req.conversation
        /\ request_body = [json |-> req.conversation, len |-> 0]
        /\ adaptive_config = req.config
        /\ has_any_tool_results_or_tools = FALSE
        /\ has_any_tool_uses = FALSE
        /\ message_content_max_chars = 0
        /\ outcome = NoOutcome
        /\ stats = ZeroStats
        /\ response = 0
        /\ provider_calls = <<>>

\* convert_request runs the compression pipeline on the normalized
\* conversation; the handler then serializes the request.
ConvertRequest ==
    /\ pc = "received"
    /\ conversation_state' = compress(conversation_state, config)
    /\ stats' = compress_stats(conversation_state, config)
    /\ request_body' = to_string(conversation_state')
    /\ pc' = "serialized"
    /\ UNCHANGED <<config, input_state, adaptive_config,
                   has_any_tool_results_or_tools, has_any_tool_uses,
                   message_content_max_chars, outcome, response, provider_calls>>
    /\ UNCHANGED <<textVars, streamVars, replyVars, adminVars>>

\* The handler's guard and the function's early return: no shrinking.
ShrinkSkip ==
    /\ pc = "serialized"
    /\ ~(max_body > 0 /\ request_body.len > max_body /\ config.enabled)
    /\ pc' = "precheck"
    /\ UNCHANGED <<config, input_state, conversation_state, request_body,
                   adaptive_config, has_any_tool_results_or_tools,
                   has_any_tool_uses, message_content_max_chars, outcome,
                   response, provider_calls>>
    /\ UNCHANGED stats
    /\ UNCHANGED <<textVars, streamVars, replyVars, adminVars>>

\* adaptive_shrink_request_body up to its loop.
ShrinkEnter ==
    /\ pc = "serialized"
    /\ max_body > 0 /\ request_body.len > max_body /\ config.enabled
    /\ outcome' = [NoOutcome EXCEPT
                     !.initial_bytes = request_body.len,
                     !.final_bytes = request_body.len,
                     !.final_tool_result_max_chars = config.tool_result_max_chars,
                     !.final_tool_use_input_max_chars = config.tool_use_input_max_chars]
    /\ adaptive_config' = config
    /\ has_any_tool_results_or_tools' =
          has_any_tool_results_or_tools_of(conversation_state)
    /\ has_any_tool_uses' = has_any_tool_uses_of(conversation_state)
    /\ message_content_max_chars' =
          three_quarters(max_content_chars_of(conversation_state),
                         ADAPTIVE_MIN_MESSAGE_CONTENT_MAX_CHARS)
    /\ pc' = "shrink"
    /\ UNCHANGED <<config, input_state, conversation_state, request_body,
                   response, provider_calls>>
    /\ UNCHANGED stats
    /\ UNCHANGED <<textVars, streamVars, replyVars, adminVars>>

\* One pass through the loop body with the body over the budget: the move,
\* then either break (nothing reported as changed) or compress, serialize.
ShrinkIter ==
    /\ pc = "shrink"
    /\ outcome.iters < ADAPTIVE_COMPRESSION_MAX_ITERS
    /\ request_body.len > max_body
    /\ LET m == shrink_move(conversation_state, adaptive_config,
                            message_content_max_chars,
                            has_any_tool_results_or_tools, has_any_tool_uses,
                            max_body)
           recorded == [outcome EXCEPT
                          !.additional_history_turns_removed = @ + m.turns,
                          !.final_message_content_max_chars =
                              IF m.used_mc # 0 THEN m.used_mc ELSE @]
       IN /\ adaptive_config' = m.cfg
          /\ message_content_max_chars' = m.mc
          /\ IF m.changed
             THEN /\ conversation_state' = compress(m.state, m.cfg)
                  /\ request_body' = to_string(conversation_state')
                  /\ outcome' = [recorded EXCEPT !.iters = @ + 1,
                                                 !.final_bytes = request_body'.len]
                  /\ pc' = "shrink"
             ELSE /\ conversation_state' = m.state
                  /\ request_body' = request_body
                  /\ outcome' = [recorded EXCEPT
                        !.final_tool_result_max_chars = m.cfg.tool_result_max_chars,
                        !.final_tool_use_input_max_chars = m.cfg.tool_use_input_max_chars]
                  /\ pc' = "precheck"
    /\ UNCHANGED <<config, input_state, has_any_tool_results_or_tools,
                   has_any_tool_uses, response, provider_calls>>
    /\ UNCHANGED stats
    /\ UNCHANGED <<textVars, streamVars, replyVars, adminVars>>

\* The loop ends: the body fits, or the iteration cap is reached.
ShrinkExit ==
    /\ pc = "shrink"
    /\ \/ outcome.iters >= ADAPTIVE_COMPRESSION_MAX_ITERS
       \/ request_body.len <= max_body
    /\ outcome' = [outcome EXCEPT
          !.final_tool_result_max_chars = adaptive_config.tool_result_max_chars,
          !.final_tool_use_input_max_chars = adaptive_config.tool_use_input_max_chars]
    /\ pc' = "precheck"
    /\ UNCHANGED <<config, input_state, conversation_state, request_body,
                   adaptive_config, has_any_tool_results_or_tools,
                   has_any_tool_uses, message_content_max_chars, response,
                   provider_calls>>
    /\ UNCHANGED stats
    /\ UNCHANGED <<textVars, streamVars, replyVars, adminVars>>

Endpoints == {"/v1/messages", "/cc/v1/messages"}

\* The byte pre-check: a body over the budget is answered 400.
Refuse ==
    /\ pc = "precheck"
    /\ over_budget(request_body.len, max_body)
    /\ response' = 400
    /\ pc' = "done"
    /\ UNCHANGED <<config, input_state, conversation_state, request_body,
                   adaptive_config, has_any_tool_results_or_tools,
                   has_any_tool_uses, message_content_max_chars, outcome,
                   provider_calls>>
    /\ UNCHANGED stats
    /\ UNCHANGED <<textVars, streamVars, replyVars, adminVars>>

\* Otherwise the body goes to the provider: call_api_stream when
\* payload.stream, call_api when not, on either route.
Dispatch ==
    /\ pc = "precheck"
    /\ ~over_budget(request_body.len, max_body)
    /\ \E endpoint \in Endpoints, stream \in BOOLEAN :
          provider_calls' = Append(provider_calls,
                                   [endpoint |-> endpoint, stream |-> stream,
                                    body |-> request_body])
    /\ pc' = "dispatched"
    /\ UNCHANGED <<config, input_state, conversation_state, request_body,
                   adaptive_config, has_any_tool_results_or_tools,
                   has_any_tool_uses, message_content_max_chars, outcome,
                   response>>
    /\ UNCHANGED stats
    /\ UNCHANGED <<textVars, streamVars, replyVars, adminVars>>

PipeNext ==
    \/ ConvertRequest
    \/ ShrinkSkip
    \/ ShrinkEnter
    \/ ShrinkIter
    \/ ShrinkExit
    \/ Refuse
    \/ Dispatch

Init == PipeInit

Next == PipeNext

Spec == Init /\ [][Next]_vars

\* ------------------------------------------------------------------------
\* The text functions of compressor.rs, each applied to one string and then
\* to its own result.

TextInputs ==
    Concats(ThinkingPieces, MaxTextPieces) \cup ResultTexts \cup InputTexts
      \cup {<<SP>>, <<SP, SP>>, <<"h", "i", SP, SP, NL, NL, NL, NL, "x", SP>>}
      \cup {Rep("a", 101), Rep("a", 140), Rep(CJK, 101)}
      \cup {<<"a", "a", NL>> \o Rep("x", 120) \o <<NL, "b", "b">>,
            <<"a", NL, "b", NL>> \o Rep(CJK, 120) \o <<NL, "c", NL, "d", NL>>}

TextCaps == {4, 10, 100, THINKING_TRUNCATE_CHARS}

\* A tool input with strings below an object and an array:
\* {"content": [text + text, 7, text]}
NestedInput(text) ==
    JObj1(<<"c", "o", "n", "t", "e", "n", "t">>,
          [t |-> "arr", v |-> <<JStr(text \o text), [t |-> "num", v |-> 7], JStr(text)>>])

LineCounts == {1, 2}

TextInit ==
    /\ PipeIdle /\ StreamIdle /\ ReplyIdle /\ AdminIdle
    /\ text_pc = "ready"
    /\ text_fn = "none"
    /\ text_in \in TextInputs
    /\ text_cap \in TextCaps
    /\ text_out = <<>>
    /\ text_again = <<>>

apply_text_fn(fn, text, cap) ==
    CASE fn = "truncate_tool_result_content_1" ->
            truncate_tool_result_content(<<text>>, cap, 1, 1)[1]
      [] fn = "truncate_tool_result_content_2" ->
            truncate_tool_result_content(<<text>>, cap, 2, 2)[1]
      [] fn = "truncate_json_value_strings" ->
            truncate_json_value_strings(JStr(text), cap).v
      [] fn = "truncate_json_value_strings_nested" ->
            truncate_json_value_strings(text, cap)
      [] fn = "truncate_thinking_blocks" -> truncate_thinking_blocks(text, cap)
      [] fn = "truncate_long_content" -> truncate_long_content(text, cap)
      [] fn = "remove_thinking_blocks" -> remove_thinking_blocks(text)
      [] fn = "compress_string_field" -> compress_string_field(text)

Applied(fn, out) ==
    /\ text_pc = "ready"
    /\ text_fn' = fn
    /\ text_out' = out
    /\ text_pc' = "applied"
    /\ UNCHANGED <<text_in, text_cap, text_again>>
    /\ UNCHANGED <<pipeVars, streamVars, replyVars, adminVars>>

TruncateToolResult ==
    \E n \in LineCounts :
        Applied(IF n = 1 THEN "truncate_tool_result_content_1"
                ELSE "truncate_tool_result_content_2",
                truncate_tool_result_content(<<text_in>>, text_cap, n, n)[1])

TruncateToolUseInput ==
    Applied("truncate_json_value_strings",
            truncate_json_value_strings(JStr(text_in), text_cap).v)

TruncateNestedToolUseInput ==
    Applied("truncate_json_value_strings_nested",
            truncate_json_value_strings(NestedInput(text_in), text_cap))

TruncateThinking ==
    Applied("truncate_thinking_blocks", truncate_thinking_blocks(text_in, text_cap))

TruncateLongContent ==
    /\ text_cap # 0
    /\ Applied("truncate_long_content", truncate_long_content(text_in, text_cap))

RemoveThinking ==
    Applied("remove_thinking_blocks", remove_thinking_blocks(text_in))

CompressStringField ==
    Applied("compress_string_field", compress_string_field(text_in))

ApplyAgain ==
    /\ text_pc = "applied"
    /\ text_again' = apply_text_fn(text_fn, text_out, text_cap)
    /\ text_pc' = "twice"
    /\ UNCHANGED <<text_fn, text_in, text_cap, text_out>>
    /\ UNCHANGED <<pipeVars, streamVars, replyVars, adminVars>>

TextNext ==
    \/ TruncateToolResult
    \/ TruncateToolUseInput
    \/ TruncateNestedToolUseInput
    \/ TruncateThinking
    \/ TruncateLongContent
    \/ RemoveThinking
    \/ CompressStringField
    \/ ApplyAgain

SpecText == TextInit /\ [][TextNext]_vars

\* ------------------------------------------------------------------------
\* Streaming responses: handle_stream_request and create_sse_stream.

\* StreamContext: the events it generates. A text block is opened by the
\* first assistant response event and closed by the final events.
new_with_thinking == NoContext

generate_initial_events(c) == <<"message_start">>

process_kiro_event(c, event) ==
    IF event = "assistantResponseEvent"
    THEN [ctx |-> [c EXCEPT !.block_open = TRUE],
          events |-> (IF c.block_open THEN <<>> ELSE <<"content_block_start">>)
                        \o <<"content_block_delta">>]
    ELSE [ctx |-> c, events |-> <<>>]

generate_final_events(c) ==
    (IF c.block_open THEN <<"content_block_stop">> ELSE <<>>)
        \o <<"message_delta", "message_stop">>

\* Frames a chunk decodes to: events the context knows, frames that
\* Event::from_frame rejects, frames the decoder fails on.
Frames == {"assistantResponseEvent", "contextUsageEvent", "unknownEvent", "decodeError"}

Chunks == {<<>>} \cup {<<f>> : f \in Frames}
            \cup {<<"assistantResponseEvent", f>> : f \in Frames}

RECURSIVE ChunkSeqs(_)
ChunkSeqs(n) ==
    IF n = 0 THEN {<<>>}
    ELSE ChunkSeqs(n - 1) \cup {Append(q, c) : q \in ChunkSeqs(n - 1), c \in Chunks}

UpstreamBodies ==
    [chunks : ChunkSeqs(MaxChunks), ending : {"end", "error"}]

StreamInit ==
    /\ PipeIdle /\ TextIdle /\ ReplyIdle /\ AdminIdle
    /\ stream_pc = "call"
    /\ body_stream \in UpstreamBodies
    /\ ctx = NoContext
    /\ finished = FALSE
    /\ ping_ticks = 0
    /\ ping_ready = FALSE
    /\ sse = <<>>

\* provider.call_api_stream fails: an error response, no stream.
CallApiStreamErr ==
    /\ stream_pc = "call"
    /\ stream_pc' = "failed"
    /\ UNCHANGED <<body_stream, ctx, finished, ping_ticks, sse>>
    /\ UNCHANGED ping_ready
    /\ UNCHANGED <<pipeVars, textVars, replyVars, adminVars>>

\* provider.call_api_stream succeeds: the context is created and the stream
\* built; ping_interval starts counting.
CallApiStreamOk ==
    /\ stream_pc = "call"
    /\ ctx' = new_with_thinking
    /\ stream_pc' = "initial"
    /\ UNCHANGED <<body_stream, finished, ping_ticks, sse>>
    /\ UNCHANGED ping_ready
    /\ UNCHANGED <<pipeVars, textVars, replyVars, adminVars>>

\* tokio::select! over body_stream.next() and ping_interval.tick(): the
\* branches that may complete. The body stream always has an answer (a
\* chunk, an error or its end); without biased a branch is picked at
\* random among the ready ones.
select(tick_ready) == IF tick_ready THEN {"tick", "chunk"} ELSE {"chunk"}

\* A select that polls the body stream first.
select_chunk_first(tick_ready) == {"chunk"}

\* tokio::select! { biased; tick, chunk }: the branches are polled in the
\* order written, so a tick that is due is taken before the body stream.
select_biased(tick_ready) == IF tick_ready THEN {"tick"} ELSE {"chunk"}

\* PING_INTERVAL_SECS have passed since the last tick: a tick is due.
\* Ticks are capped at MaxPings.
PingTimerElapses ==
    /\ stream_pc = "processing" /\ ~finished
    /\ ~ping_ready /\ ping_ticks < MaxPings
    /\ ping_ready' = TRUE
    /\ UNCHANGED <<stream_pc, body_stream, ctx, finished, ping_ticks, sse>>
    /\ UNCHANGED <<pipeVars, textVars, replyVars, adminVars>>

\* initial_stream, the first part of the chain.
YieldInitialEvents ==
    /\ stream_pc = "initial"
    /\ sse' = sse \o generate_initial_events(ctx)
    /\ stream_pc' = "processing"
    /\ UNCHANGED <<body_stream, ctx, finished, ping_ticks>>
    /\ UNCHANGED ping_ready
    /\ UNCHANGED <<pipeVars, textVars, replyVars, adminVars>>

\* The events of the frames of one chunk, in order.
RECURSIVE process_frames(_, _, _)
process_frames(c, frames, events) ==
    IF frames = <<>> THEN [ctx |-> c, events |-> events]
    ELSE IF frames[1] \in {"unknownEvent", "decodeError"}
    THEN process_frames(c, Tail(frames), events)
    ELSE LET r == process_kiro_event(c, frames[1])
         IN process_frames(r.ctx, Tail(frames), events \o r.events)

\* The unfold step on Some(Ok(chunk)).
unfold_step_chunk(c, chunk) ==
    LET r == process_frames(c, chunk, <<>>)
    IN [ctx |-> r.ctx, events |-> r.events, finished |-> FALSE]

\* The unfold step on None and on Some(Err(e)).
unfold_step_end_unfinished(c) ==
    [ctx |-> c, events |-> generate_final_events(c), finished |-> FALSE]

unfold_step_end(c) ==
    [ctx |-> c, events |-> generate_final_events(c), finished |-> TRUE]

\* The unfold step on a tick of ping_interval.
unfold_step_ping(c) ==
    [ctx |-> c, events |-> <<"ping">>, finished |-> FALSE]

Yield(step) ==
    /\ ctx' = step.ctx
    /\ sse' = sse \o step.events
    /\ finished' = step.finished

ReadChunk ==
    /\ stream_pc = "processing" /\ ~finished
    /\ "chunk" \in select(ping_ready)
    /\ body_stream.chunks # <<>>
    /\ Yield(unfold_step_chunk(ctx, Head(body_stream.chunks)))
    /\ body_stream' = [body_stream EXCEPT !.chunks = Tail(@)]
    /\ UNCHANGED <<stream_pc, ping_ticks>>
    /\ UNCHANGED ping_ready
    /\ UNCHANGED <<pipeVars, textVars, replyVars, adminVars>>

ReadError ==
    /\ stream_pc = "processing" /\ ~finished
    /\ "chunk" \in select(ping_ready)
    /\ body_stream.chunks = <<>> /\ body_stream.ending = "error"
    /\ Yield(unfold_step_end(ctx))
    /\ UNCHANGED <<stream_pc, body_stream, ping_ticks>>
    /\ UNCHANGED ping_ready
    /\ UNCHANGED <<pipeVars, textVars, replyVars, adminVars>>

ReadEnd ==
    /\ stream_pc = "processing" /\ ~finished
    /\ "chunk" \in select(ping_ready)
    /\ body_stream.chunks = <<>> /\ body_stream.ending = "end"
    /\ Yield(unfold_step_end(ctx))
    /\ UNCHANGED <<stream_pc, body_stream, ping_ticks>>
    /\ UNCHANGED ping_ready
    /\ UNCHANGED <<pipeVars, textVars, replyVars, adminVars>>

\* select! takes the tick branch.
PingTick ==
    /\ stream_pc = "processing" /\ ~finished
    /\ "tick" \in select(ping_ready)
    /\ Yield(unfold_step_ping(ctx))
    /\ ping_ticks' = ping_ticks + 1
    /\ ping_ready' = FALSE
    /\ UNCHANGED <<stream_pc, body_stream>>
    /\ UNCHANGED <<pipeVars, textVars, replyVars, adminVars>>

\* The unfold closure returns None once finished.
StreamClose ==
    /\ stream_pc = "processing" /\ finished
    /\ stream_pc' = "closed"
    /\ UNCHANGED <<body_stream, ctx, finished, ping_ticks, sse>>
    /\ UNCHANGED ping_ready
    /\ UNCHANGED <<pipeVars, textVars, replyVars, adminVars>>

StreamNext ==
    \/ CallApiStreamErr
    \/ CallApiStreamOk
    \/ YieldInitialEvents
    \/ ReadChunk
    \/ ReadError
    \/ ReadEnd
    \/ PingTimerElapses
    \/ PingTick
    \/ StreamClose

SpecStream == StreamInit /\ [][StreamNext]_vars

\* ------------------------------------------------------------------------
\* Buffered streaming responses (/cc/v1/messages): handle_stream_request_buffered
\* and create_buffered_sse_stream.  The stream variables are reused; ctx is
\* the BufferedStreamContext, a StreamContext with the buffer of its events.

\* BufferedStreamContext::new
new_buffered == [block_open |-> FALSE, buffer |-> <<>>]

\* BufferedStreamContext::process_and_buffer
process_and_buffer(c, event) ==
    LET r == process_kiro_event([block_open |-> c.block_open], event)
    IN [block_open |-> r.ctx.block_open, buffer |-> c.buffer \o r.events]

\* BufferedStreamContext::finish_and_get_all_events
finish_and_get_all_events(c) ==
    generate_initial_events(c) \o c.buffer \o generate_final_events(c)

RECURSIVE buffer_frames(_, _)
buffer_frames(c, frames) ==
    IF frames = <<>> THEN c
    ELSE IF frames[1] \in {"unknownEvent", "decodeError"}
    THEN buffer_frames(c, Tail(frames))
    ELSE buffer_frames(process_and_buffer(c, frames[1]), Tail(frames))

\* The select loop on Some(Ok(chunk)): the events are buffered, nothing is
\* yielded and the loop goes on.
buffered_step_chunk_unbuffered(c, chunk) ==
    [ctx |-> buffer_frames(c, chunk),
     events |-> SubSeq(buffer_frames(c, chunk).buffer, Len(c.buffer) + 1,
                       Len(buffer_frames(c, chunk).buffer)),
     finished |-> FALSE]

buffered_step_chunk(c, chunk) ==
    [ctx |-> buffer_frames(c, chunk), events |-> <<>>, finished |-> FALSE]

\* The select loop on None and on Some(Err(e)).
buffered_step_end(c) ==
    [ctx |-> c, events |-> finish_and_get_all_events(c), finished |-> TRUE]

BufferedInit ==
    /\ PipeIdle /\ TextIdle /\ ReplyIdle /\ AdminIdle
    /\ stream_pc = "call"
    /\ body_stream \in UpstreamBodies
    /\ ctx = new_buffered
    /\ finished = FALSE
    /\ ping_ticks = 0
    /\ ping_ready = FALSE
    /\ sse = <<>>

BufferedCallErr ==
    /\ stream_pc = "call"
    /\ stream_pc' = "failed"
    /\ UNCHANGED <<body_stream, ctx, finished, ping_ticks, sse>>
    /\ UNCHANGED ping_ready
    /\ UNCHANGED <<pipeVars, textVars, replyVars, adminVars>>

BufferedCallOk ==
    /\ stream_pc = "call"
    /\ ctx' = new_buffered
    /\ stream_pc' = "processing"
    /\ UNCHANGED <<body_stream, finished, ping_ticks, sse>>
    /\ UNCHANGED ping_ready
    /\ UNCHANGED <<pipeVars, textVars, replyVars, adminVars>>

\* The tick branch of the biased select.
BufferedPing ==
    /\ stream_pc = "processing" /\ ~finished
    /\ "tick" \in select_biased(ping_ready)
    /\ Yield(unfold_step_ping(ctx))
    /\ ping_ticks' = ping_ticks + 1
    /\ ping_ready' = FALSE
    /\ UNCHANGED <<stream_pc, body_stream>>
    /\ UNCHANGED <<pipeVars, textVars, replyVars, adminVars>>

BufferedReadChunk ==
    /\ stream_pc = "processing" /\ ~finished
    /\ "chunk" \in select_biased(ping_ready)
    /\ body_stream.chunks # <<>>
    /\ Yield(buffered_step_chunk(ctx, Head(body_stream.chunks)))
    /\ body_stream' = [body_stream EXCEPT !.chunks = Tail(@)]
    /\ UNCHANGED <<stream_pc, ping_ticks>>
    /\ UNCHANGED ping_ready
    /\ UNCHANGED <<pipeVars, textVars, replyVars, adminVars>>

BufferedReadError ==
    /\ stream_pc = "processing" /\ ~finished
    /\ "chunk" \in select_biased(ping_ready)
    /\ body_stream.chunks = <<>> /\ body_stream.ending = "error"
    /\ Yield(buffered_step_end(ctx))
    /\ UNCHANGED <<stream_pc, body_stream, ping_ticks>>
    /\ UNCHANGED ping_ready
    /\ UNCHANGED <<pipeVars, textVars, replyVars, adminVars>>

BufferedReadEnd ==
    /\ stream_pc = "processing" /\ ~finished
    /\ "chunk" \in select_biased(ping_ready)
    /\ body_stream.chunks = <<>> /\ body_stream.ending = "end"
    /\ Yield(buffered_step_end(ctx))
    /\ UNCHANGED <<stream_pc, body_stream, ping_ticks>>
    /\ UNCHANGED ping_ready
    /\ UNCHANGED <<pipeVars, textVars, replyVars, adminVars>>

BufferedClose ==
    /\ stream_pc = "processing" /\ finished
    /\ stream_pc' = "closed"
    /\ UNCHANGED <<body_stream, ctx, finished, ping_ticks, sse>>
    /\ UNCHANGED ping_ready
    /\ UNCHANGED <<pipeVars, textVars, replyVars, adminVars>>

BufferedNext ==
    \/ BufferedCallErr
    \/ BufferedCallOk
    \/ PingTimerElapses
    \/ BufferedPing
    \/ BufferedReadChunk
    \/ BufferedReadError
    \/ BufferedReadEnd
    \/ BufferedClose

SpecBuffered == BufferedInit /\ [][BufferedNext]_vars

\* ------------------------------------------------------------------------
\* Upstream errors: map_kiro_provider_error_to_response.  err.to_string() is
\* a sequence of code points; a code point outside ASCII is written by its
\* number.

CONTENT_LENGTH_EXCEEDS_THRESHOLD ==
    <<"C", "O", "N", "T", "E", "N", "T", "_", "L", "E", "N", "G", "T", "H",
      "_", "E", "X", "C", "E", "E", "D", "S", "_", "T", "H", "R", "E", "S",
      "H", "O", "L", "D">>

INPUT_IS_TOO_LONG ==
    <<"I", "n", "p", "u", "t", " ", "i", "s", " ", "t", "o", "o", " ", "l",
      "o", "n", "g">>

IMPROPERLY_FORMED_REQUEST ==
    <<"I", "m", "p", "r", "o", "p", "e", "r", "l", "y", " ", "f", "o", "r",
      "m", "e", "d", " ", "r", "e", "q", "u", "e", "s", "t">>

ALL_CREDENTIALS_EXHAUSTED ==
    <<"U+6240", "U+6709", "U+51ED", "U+636E", "U+5DF2", "U+7528", "U+5C3D">>

is_input_too_long_error(err) ==
    contains(err, CONTENT_LENGTH_EXCEEDS_THRESHOLD) \/ contains(err, INPUT_IS_TOO_LONG)

is_quota_exhausted_error(err) == contains(err, ALL_CREDENTIALS_EXHAUSTED)

is_improperly_formed_request_error(err) == contains(err, IMPROPERLY_FORMED_REQUEST)

ErrorResponse(status, type) == [status |-> status, type |-> type]

map_kiro_provider_error_to_response_quota_first(err) ==
    IF is_quota_exhausted_error(err) THEN ErrorResponse(429, "rate_limit_error")
    ELSE IF is_input_too_long_error(err) THEN ErrorResponse(400, "invalid_request_error")
    ELSE IF is_improperly_formed_request_error(err)
    THEN ErrorResponse(400, "invalid_request_error")
    ELSE ErrorResponse(502, "api_error")

map_kiro_provider_error_to_response(err) ==
    IF is_input_too_long_error(err) THEN ErrorResponse(400, "invalid_request_error")
    ELSE IF is_improperly_formed_request_error(err)
    THEN ErrorResponse(400, "invalid_request_error")
    ELSE IF is_quota_exhausted_error(err) THEN ErrorResponse(429, "rate_limit_error")
    ELSE ErrorResponse(502, "api_error")

\* Error texts: the markers, parts of a marker, other text, concatenated.
MaxErrorPieces == 3

ErrorPieces ==
    {CONTENT_LENGTH_EXCEEDS_THRESHOLD, INPUT_IS_TOO_LONG, IMPROPERLY_FORMED_REQUEST,
     ALL_CREDENTIALS_EXHAUSTED,
     SubSeq(INPUT_IS_TOO_LONG, 1, 13), SubSeq(INPUT_IS_TOO_LONG, 14, 17),
     <<"5", "0", "2", ":", SP>>}

ErrorTexts == Concats(ErrorPieces, MaxErrorPieces)

ErrorInit ==
    /\ PipeIdle /\ StreamIdle /\ ReplyIdle /\ AdminIdle
    /\ text_pc = "ready"
    /\ text_fn = "none"
    /\ text_in \in ErrorTexts
    /\ text_cap = 0
    /\ text_out = <<>>
    /\ text_again = <<>>

\* provider.call_api / call_api_stream returned Err(e).
MapKiroProviderError ==
    Applied("map_kiro_provider_error_to_response",
            map_kiro_provider_error_to_response(text_in))

ErrorNext == MapKiroProviderError

SpecError == ErrorInit /\ [][ErrorNext]_vars

\* ------------------------------------------------------------------------
\* Tool-call truncation heuristics (truncation.rs).

TAB == "\t"
CR == "\r"
QUOTE == "\""
BACKSLASH == "\\"

White == {SP, NL, TAB, CR}

RECURSIVE trim_start(_)
trim_start(s) == IF Len(s) > 0 /\ s[1] \in White THEN trim_start(Tail(s)) ELSE s

RECURSIVE trim_back(_)
trim_back(s) == IF Len(s) > 0 /\ s[Len(s)] \in White
                THEN trim_back(SubSeq(s, 1, Len(s) - 1))
                ELSE s

\* str::trim
trim(s) == trim_back(trim_start(s))

\* The scan of has_unclosed_string from character i on.
RECURSIVE hus_loop(_, _, _, _)
hus_loop(s, i, in_string, escape_next) ==
    IF i > Len(s) THEN in_string
    ELSE IF escape_next THEN hus_loop(s, i + 1, in_string, FALSE)
    ELSE IF s[i] = BACKSLASH /\ in_string THEN hus_loop(s, i + 1, in_string, TRUE)
    ELSE IF s[i] = QUOTE THEN hus_loop(s, i + 1, ~in_string, FALSE)
    ELSE hus_loop(s, i + 1, in_string, FALSE)

has_unclosed_string(s) == hus_loop(s, 1, FALSE, FALSE)

\* The scan of are_brackets_balanced from character i on.
RECURSIVE abb_loop(_, _, _, _, _)
abb_loop(s, i, stack, in_string, escape_next) ==
    IF i > Len(s) THEN stack = <<>>
    ELSE IF escape_next THEN abb_loop(s, i + 1, stack, in_string, FALSE)
    ELSE IF in_string
    THEN IF s[i] = BACKSLASH THEN abb_loop(s, i + 1, stack, TRUE, TRUE)
         ELSE IF s[i] = QUOTE THEN abb_loop(s, i + 1, stack, FALSE, FALSE)
         ELSE abb_loop(s, i + 1, stack, TRUE, FALSE)
    ELSE IF s[i] = QUOTE THEN abb_loop(s, i + 1, stack, TRUE, FALSE)
    ELSE IF s[i] \in {"{", "["} THEN abb_loop(s, i + 1, Append(stack, s[i]), FALSE, FALSE)
    ELSE IF s[i] = "}"
    THEN IF stack = <<>> \/ stack[Len(stack)] # "{" THEN FALSE
         ELSE abb_loop(s, i + 1, SubSeq(stack, 1, Len(stack) - 1), FALSE, FALSE)
    ELSE IF s[i] = "]"
    THEN IF stack = <<>> \/ stack[Len(stack)] # "[" THEN FALSE
         ELSE abb_loop(s, i + 1, SubSeq(stack, 1, Len(stack) - 1), FALSE, FALSE)
    ELSE abb_loop(s, i + 1, stack, FALSE, FALSE)

are_brackets_balanced(s) == abb_loop(s, 1, <<>>, FALSE, FALSE)

\* Option<TruncationInfo>, by its truncation_type.
NoTruncation == [some |-> FALSE, v |-> "none"]

detect_truncation(raw_input) ==
    LET trimmed == trim(raw_input)
    IN  IF trimmed = <<>> THEN Some("EmptyInput")
        ELSE IF has_unclosed_string(trimmed) THEN Some("IncompleteString")
        ELSE IF ~are_brackets_balanced(trimmed) THEN Some("InvalidJson")
        ELSE NoTruncation

\* ------------------------------------------------------------------------
\* serde_json::from_str::<Value>, on texts of the characters
\* { } [ ] " \ : , - digits, letters and white space.  A parser returns
\* the position after what it read, and 0 for an error.

JsonDigits == {"0", "1", "2", "3", "4", "5", "6", "7", "8", "9"}

JsonEscapes == {QUOTE, BACKSLASH, "/", "b", "f", "n", "r", "t"}

JsonLiterals == {<<"t", "r", "u", "e">>, <<"f", "a", "l", "s", "e">>,
                 <<"n", "u", "l", "l">>}

RECURSIVE skip_ws(_, _)
skip_ws(s, i) == IF i <= Len(s) /\ s[i] \in White THEN skip_ws(s, i + 1) ELSE i

\* After the opening quote.
RECURSIVE parse_str(_, _)
parse_str(s, i) ==
    IF i > Len(s) THEN 0
    ELSE IF s[i] = QUOTE THEN i + 1
    ELSE IF s[i] = BACKSLASH
    THEN IF i + 1 <= Len(s) /\ s[i + 1] \in JsonEscapes THEN parse_str(s, i + 2) ELSE 0
    ELSE IF s[i] \in {NL, TAB, CR} THEN 0
    ELSE parse_str(s, i + 1)

RECURSIVE parse_digits(_, _)
parse_digits(s, i) ==
    IF i <= Len(s) /\ s[i] \in JsonDigits THEN parse_digits(s, i + 1) ELSE i

\* An integer: an optional sign, then 0 or a digit string without leading 0.
parse_integer(s, i) ==
    LET j == IF i <= Len(s) /\ s[i] = "-" THEN i + 1 ELSE i
    IN  IF j > Len(s) \/ s[j] \notin JsonDigits THEN 0
        ELSE IF s[j] = "0"
        THEN IF j + 1 <= Len(s) /\ s[j + 1] \in JsonDigits THEN 0 ELSE j + 1
        ELSE parse_digits(s, j + 1)

parse_ident(s, i) ==
    LET fit == {l \in JsonLiterals :
                    /\ i + Len(l) - 1 <= Len(s)
                    /\ SubSeq(s, i, i + Len(l) - 1) = l}
    IN  IF fit = {} THEN 0 ELSE i + Len(CHOOSE l \in fit : TRUE)

RECURSIVE parse_value(_, _)
RECURSIVE parse_members(_, _)
RECURSIVE parse_elements(_, _)

\* i is at the first non-white character of a value.
parse_value(s, i0) ==
    LET i == skip_ws(s, i0)
    IN  IF i > Len(s) THEN 0
        ELSE IF s[i] = "{"
        THEN LET j == skip_ws(s, i + 1)
             IN  IF j <= Len(s) /\ s[j] = "}" THEN j + 1 ELSE parse_members(s, j)
        ELSE IF s[i] = "["
        THEN LET j == skip_ws(s, i + 1)
             IN  IF j <= Len(s) /\ s[j] = "]" THEN j + 1 ELSE parse_elements(s, j)
        ELSE IF s[i] = QUOTE THEN parse_str(s, i + 1)
        ELSE IF s[i] \in JsonDigits \cup {"-"} THEN parse_integer(s, i)
        ELSE parse_ident(s, i)

\* "key": value, then , or }
parse_members(s, i) ==
    IF i > Len(s) \/ s[i] # QUOTE THEN 0
    ELSE LET k == parse_str(s, i + 1)
             c == skip_ws(s, k)
         IN  IF k = 0 \/ c > Len(s) \/ s[c] # ":" THEN 0
             ELSE LET v == parse_value(s, c + 1)
                      e == skip_ws(s, v)
                  IN  IF v = 0 \/ e > Len(s) THEN 0
                      ELSE IF s[e] = "}" THEN e + 1
                      ELSE IF s[e] = "," THEN parse_members(s, skip_ws(s, e + 1))
                      ELSE 0

\* value, then , or ]
parse_elements(s, i) ==
    LET v == parse_value(s, i)
        e == skip_ws(s, v)
    IN  IF v = 0 \/ e > Len(s) THEN 0
        ELSE IF s[e] = "]" THEN e + 1
        ELSE IF s[e] = ","
        THEN LET n == skip_ws(s, e + 1)
             IN  IF n <= Len(s) /\ s[n] = "]" THEN 0 ELSE parse_elements(s, n)
        ELSE 0

\* The text of a value without the white space between its tokens.
RECURSIVE compact(_, _, _)
compact(s, i, in_string) ==
    IF i > Len(s) THEN <<>>
    ELSE IF in_string
    THEN IF s[i] = BACKSLASH /\ i < Len(s)
         THEN <<s[i], s[i + 1]>> \o compact(s, i + 2, TRUE)
         ELSE <<s[i]>> \o compact(s, i + 1, s[i] # QUOTE)
    ELSE IF s[i] \in White THEN compact(s, i + 1, FALSE)
    ELSE <<s[i]>> \o compact(s, i + 1, s[i] = QUOTE)

\* Result<Value>: the value is held as its compact text.
from_str(s) ==
    LET e == parse_value(s, 1)
    IN  IF e # 0 /\ skip_ws(s, e) = Len(s) + 1
        THEN [ok |-> TRUE, value |-> compact(s, 1, FALSE)]
        ELSE [ok |-> FALSE, value |-> <<>>]

\* json!({})
EmptyObject == <<"{", "}">>

\* ------------------------------------------------------------------------
\* Non-stream responses: handle_non_stream_request.

\* The input of the tool_use block pushed for a stop frame, and the
\* truncation logged for it.
tool_input_unparsed(buffer) ==
    IF trim(buffer) = <<>> THEN [input |-> EmptyObject, warned |-> FALSE]
    ELSE LET r == from_str(buffer)
         IN  IF r.ok THEN [input |-> r.value, warned |-> FALSE]
             ELSE [input |-> buffer, warned |-> TRUE]

tool_input(buffer) ==
    IF trim(buffer) = <<>> THEN [input |-> EmptyObject, warned |-> FALSE]
    ELSE LET r == from_str(buffer)
         IN  IF r.ok THEN [input |-> r.value, warned |-> FALSE]
             ELSE [input |-> EmptyObject, warned |-> TRUE]

\* One buffer for all ids.
buffer_entry_shared(buffers, id) ==
    IF DOMAIN buffers = {} THEN <<>>
    ELSE buffers[CHOOSE k \in DOMAIN buffers : TRUE]

\* tool_json_buffers.entry(id).or_default()
buffer_entry(buffers, id) == IF id \in DOMAIN buffers THEN buffers[id] ELSE <<>>

\* tool_json_buffers.remove(id)
buffer_remove(buffers, id) == [k \in DOMAIN buffers \ {id} |-> buffers[k]]

buffer_put(buffers, id, text) ==
    [k \in DOMAIN buffers \cup {id} |-> IF k = id THEN text ELSE buffers[k]]

NoBuffers == [k \in {} |-> <<>>]

ToolUseBlock(id, name, input) ==
    [type |-> "tool_use", id |-> id, name |-> name, input |-> input, text |-> <<>>]

TextBlock(text) ==
    [type |-> "text", id |-> "none", name |-> "none", input |-> <<>>, text |-> text]

\* (context_usage_percentage * context_window / 100.0) as i32
actual_input_tokens(pct, window) == (pct * window) \div 100

\* The events a response body decodes to.
MaxFrames == 3

ToolInputChunks ==
    {<<>>, <<SP>>, <<"{", QUOTE, "a", QUOTE, ":">>, <<SP, "1", "}">>, <<QUOTE, "b">>}

ToolUseEvent(id, name, input, stop) ==
    [kind |-> "ToolUse", tool_use_id |-> id, name |-> name, input |-> input,
     stop |-> stop]

ToolUseEvents ==
    {ToolUseEvent("t1", "Write", i, s) : i \in ToolInputChunks, s \in BOOLEAN}
      \cup {ToolUseEvent("t2", "Edit", i, s) :
                i \in {<<>>, <<QUOTE, "b">>}, s \in BOOLEAN}

ReplyEvents ==
    ToolUseEvents
      \cup {[kind |-> "AssistantResponse", content |-> <<"h", "i">>]}
      \cup {[kind |-> "ContextUsage", context_usage_percentage |-> p] : p \in {50, 100}}
      \cup {[kind |-> "Exception", exception_type |-> t] :
                t \in {"ContentLengthExceededException", "ThrottlingException"}}
      \cup {[kind |-> "Unknown"], [kind |-> "DecodeError"]}

RECURSIVE EventSeqs(_)
EventSeqs(n) ==
    IF n = 0 THEN {<<>>}
    ELSE EventSeqs(n - 1)
           \cup {Append(s, e) : s \in {x \in EventSeqs(n - 1) : Len(x) = n - 1},
                                e \in ReplyEvents}

ContextWindows == {200000, 1000000}

CallErrors == {INPUT_IS_TOO_LONG, ALL_CREDENTIALS_EXHAUSTED, <<"5", "0", "0">>}

ErrorReply(r) ==
    [status |-> r.status, type |-> r.type, content |-> <<>>, stop_reason |-> "none",
     input_tokens |-> None]

ReplyInit ==
    /\ PipeIdle /\ TextIdle /\ StreamIdle /\ AdminIdle
    /\ reply_pc = "call"
    /\ context_window \in ContextWindows
    /\ body_bytes = <<>>
    /\ decode_iter = <<>>
    /\ text_content = <<>>
    /\ tool_uses = <<>>
    /\ has_tool_use = FALSE
    /\ stop_reason = "end_turn"
    /\ context_input_tokens = None
    /\ tool_json_buffers = NoBuffers
    /\ warnings = <<>>
    /\ reply = NoReply

ReplyFrame == UNCHANGED <<pipeVars, textVars, streamVars, context_window, adminVars>>

AfterBody == ReplyFrame /\ UNCHANGED body_bytes

Accumulators == <<text_content, tool_uses, has_tool_use, stop_reason,
                  context_input_tokens, tool_json_buffers, warnings>>

\* provider.call_api returned Err(e).
ReplyCallErr ==
    /\ reply_pc = "call"
    /\ \E e \in CallErrors :
           reply' = ErrorReply(map_kiro_provider_error_to_response(e))
    /\ reply_pc' = "answered"
    /\ UNCHANGED <<decode_iter, Accumulators>>
    /\ AfterBody

ReplyCallOk ==
    /\ reply_pc = "call"
    /\ reply_pc' = "body"
    /\ UNCHANGED <<decode_iter, Accumulators, reply>>
    /\ AfterBody

\* response.bytes() returned Err(e).
ReplyBodyErr ==
    /\ reply_pc = "body"
    /\ reply' = ErrorReply(ErrorResponse(502, "api_error"))
    /\ reply_pc' = "answered"
    /\ UNCHANGED <<decode_iter, Accumulators>>
    /\ AfterBody

\* The body is read whole and fed to the decoder.
ReplyBodyOk ==
    /\ reply_pc = "body"
    /\ body_bytes' \in EventSeqs(MaxFrames)
    /\ decode_iter' = body_bytes'
    /\ reply_pc' = "decoding"
    /\ UNCHANGED <<Accumulators, reply>>
    /\ ReplyFrame

NextEvent(kind) ==
    /\ reply_pc = "decoding"
    /\ decode_iter # <<>>
    /\ Head(decode_iter).kind = kind
    /\ decode_iter' = Tail(decode_iter)
    /\ UNCHANGED <<reply_pc, reply>>
    /\ AfterBody

OnAssistantResponse ==
    /\ NextEvent("AssistantResponse")
    /\ text_content' = text_content \o Head(decode_iter).content
    /\ UNCHANGED <<tool_uses, has_tool_use, stop_reason, context_input_tokens,
                   tool_json_buffers, warnings>>

OnToolUse ==
    /\ NextEvent("ToolUse")
    /\ LET tool_use == Head(decode_iter)
           id == tool_use.tool_use_id
           buffer == buffer_entry(tool_json_buffers, id) \o tool_use.input
           parsed == tool_input(buffer)
       IN  /\ has_tool_use' = TRUE
           /\ IF tool_use.stop
              THEN /\ tool_json_buffers' = buffer_remove(tool_json_buffers, id)
                   /\ tool_uses' = Append(tool_uses,
                                          ToolUseBlock(id, tool_use.name, parsed.input))
                   /\ warnings' =
                         IF parsed.warned
                         THEN Append(warnings,
                                     [tool_use_id |-> id, raw_input |-> buffer,
                                      truncation |-> detect_truncation(buffer)])
                         ELSE warnings
              ELSE /\ tool_json_buffers' = buffer_put(tool_json_buffers, id, buffer)
                   /\ UNCHANGED <<tool_uses, warnings>>
    /\ UNCHANGED <<text_content, stop_reason, context_input_tokens>>

OnContextUsage ==
    /\ NextEvent("ContextUsage")
    /\ LET pct == Head(decode_iter).context_usage_percentage
       IN  /\ context_input_tokens' = Some(actual_input_tokens(pct, context_window))
           /\ stop_reason' = IF pct >= 100 THEN "model_context_window_exceeded"
                             ELSE stop_reason
    /\ UNCHANGED <<text_content, tool_uses, has_tool_use, tool_json_buffers, warnings>>

OnException ==
    /\ NextEvent("Exception")
    /\ stop_reason' = IF Head(decode_iter).exception_type = "ContentLengthExceededException"
                      THEN "max_tokens"
                      ELSE stop_reason
    /\ UNCHANGED <<text_content, tool_uses, has_tool_use, context_input_tokens,
                   tool_json_buffers, warnings>>

\* Any other event.
OnOtherEvent ==
    /\ NextEvent("Unknown")
    /\ UNCHANGED Accumulators

\* decode_iter yielded Err(e), or Event::from_frame failed.
OnDecodeError ==
    /\ NextEvent("DecodeError")
    /\ UNCHANGED Accumulators

\* After the loop: the stop reason, the content and the response.
BuildResponse ==
    /\ reply_pc = "decoding"
    /\ decode_iter = <<>>
    /\ LET final_stop_reason == IF has_tool_use /\ stop_reason = "end_turn"
                                THEN "tool_use"
                                ELSE stop_reason
           content == (IF text_content # <<>> THEN <<TextBlock(text_content)>> ELSE <<>>)
                        \o tool_uses
       IN  /\ stop_reason' = final_stop_reason
           /\ reply' = [status |-> 200, type |-> "message", content |-> content,
                        stop_reason |-> final_stop_reason,
                        input_tokens |-> context_input_tokens]
    /\ reply_pc' = "answered"
    /\ UNCHANGED <<decode_iter, text_content, tool_uses, has_tool_use,
                   context_input_tokens, tool_json_buffers, warnings>>
    /\ AfterBody

ReplyNext ==
    \/ ReplyCallErr
    \/ ReplyCallOk
    \/ ReplyBodyErr
    \/ ReplyBodyOk
    \/ OnAssistantResponse
    \/ OnToolUse
    \/ OnContextUsage
    \/ OnException
    \/ OnOtherEvent
    \/ OnDecodeError
    \/ BuildResponse

SpecReply == ReplyInit /\ [][ReplyNext]_vars

\* ------------------------------------------------------------------------
\* compress_history_pass applied to one history.

MaxHistory == 12

\* n messages, user and assistant in turn, told apart by their content or
\* all of the same content.
HistoryOf(n, distinct) ==
    [i \in 1..n |->
        LET content == IF distinct THEN Dec(i) ELSE <<"m">>
        IN  IF i % 2 = 1 THEN UserMsg(content, <<>>, <<>>)
            ELSE AssistantMsg(content, NoToolUses)]

PlainHistories == {HistoryOf(n, d) : n \in 0..MaxHistory, d \in BOOLEAN}

\* max_history_turns
HistoryTurns == 0..3

\* max_history_chars
HistoryChars == {1, 6, 9}

HistoryInit ==
    /\ PipeIdle /\ StreamIdle /\ ReplyIdle /\ AdminIdle
    /\ text_pc = "ready"
    /\ text_fn = "none"
    /\ text_in \in PlainHistories
    /\ text_cap \in HistoryTurns
    /\ text_out = <<>>
    /\ text_again = <<>>

HistoryState(history) == Conversation(history, UserMsg(<<"c">>, <<>>, <<>>))

\* The pass with max_history_chars = 0.
TruncateHistoryByTurns ==
    Applied("compress_history_pass_turns",
            compress_history_pass(HistoryState(text_in), text_cap, 0).history)

\* The pass with max_history_turns = 0.
TruncateHistoryByChars ==
    \E max_chars \in HistoryChars :
        Applied("compress_history_pass_chars",
                compress_history_pass(HistoryState(text_in), 0, max_chars).history)

HistoryNext ==
    \/ TruncateHistoryByTurns
    \/ TruncateHistoryByChars

SpecHistory == HistoryInit /\ [][HistoryNext]_vars

\* ------------------------------------------------------------------------
\* The thinking override: override_thinking_from_model_name.

\* char::to_lowercase on the letters of a model name.
LowerCase ==
    "A" :> "a" @@ "B" :> "b" @@ "C" :> "c" @@ "D" :> "d" @@ "E" :> "e"
      @@ "F" :> "f" @@ "G" :> "g" @@ "H" :> "h" @@ "I" :> "i" @@ "J" :> "j"
      @@ "K" :> "k" @@ "L" :> "l" @@ "M" :> "m" @@ "N" :> "n" @@ "O" :> "o"
      @@ "P" :> "p" @@ "Q" :> "q" @@ "R" :> "r" @@ "S" :> "s" @@ "T" :> "t"
      @@ "U" :> "u" @@ "V" :> "v" @@ "W" :> "w" @@ "X" :> "x" @@ "Y" :> "y"
      @@ "Z" :> "z"

to_lowercase(text) ==
    [i \in 1..Len(text) |->
        IF text[i] \in DOMAIN LowerCase THEN LowerCase[text[i]] ELSE text[i]]

ends_with(text, suffix) ==
    /\ Len(suffix) <= Len(text)
    /\ SubSeq(text, Len(text) - Len(suffix) + 1, Len(text)) = suffix

THINKING ==
    <<"t", "h", "i", "n", "k", "i", "n", "g">>

SUFFIX_MINIMAL ==
    <<"-", "t", "h", "i", "n", "k", "i", "n", "g", "-", "m", "i", "n", "i",
      "m", "a", "l">>

SUFFIX_LOW ==
    <<"-", "t", "h", "i", "n", "k", "i", "n", "g", "-", "l", "o", "w">>

SUFFIX_MEDIUM ==
    <<"-", "t", "h", "i", "n", "k", "i", "n", "g", "-", "m", "e", "d", "i",
      "u", "m">>

SUFFIX_HIGH ==
    <<"-", "t", "h", "i", "n", "k", "i", "n", "g", "-", "h", "i", "g", "h">>

SUFFIX_XHIGH ==
    <<"-", "t", "h", "i", "n", "k", "i", "n", "g", "-", "x", "h", "i", "g",
      "h">>

SUFFIX_THINKING ==
    <<"-", "t", "h", "i", "n", "k", "i", "n", "g">>

OPUS ==
    <<"o", "p", "u", "s">>

SONNET ==
    <<"s", "o", "n", "n", "e", "t">>

FOUR_DASH_SIX ==
    <<"4", "-", "6">>

FOUR_DOT_SIX ==
    <<"4", ".", "6">>

Thinking(thinking_type, budget_tokens) ==
    [thinking_type |-> thinking_type, budget_tokens |-> budget_tokens]

OutputConfig(effort) == [effort |-> effort]

\* The function reads is_opus_4_6 (line 1168), a name that it does not
\* define: its value is an input here, any boolean the name may be bound to.
override_thinking_from_model_name(payload, is_opus_4_6) ==
    LET model_lower == to_lowercase(payload.model)
        budget_tokens ==
            IF ends_with(model_lower, SUFFIX_MINIMAL) THEN 512
            ELSE IF ends_with(model_lower, SUFFIX_LOW) THEN 1024
            ELSE IF ends_with(model_lower, SUFFIX_MEDIUM) THEN 8192
            ELSE IF ends_with(model_lower, SUFFIX_HIGH) THEN 24576
            ELSE IF ends_with(model_lower, SUFFIX_XHIGH) THEN 32768
            ELSE IF ends_with(model_lower, SUFFIX_THINKING) THEN 20000
            ELSE 0
        is_opus_or_sonnet_4_6 ==
            /\ contains(model_lower, OPUS) \/ contains(model_lower, SONNET)
            /\ contains(model_lower, FOUR_DASH_SIX) \/ contains(model_lower, FOUR_DOT_SIX)
        thinking_type == IF is_opus_4_6 THEN "adaptive" ELSE "enabled"
    IN  IF ~contains(model_lower, THINKING) THEN payload
        ELSE IF budget_tokens = 0 THEN payload
        ELSE [payload EXCEPT
                !.thinking = Some(Thinking(thinking_type, budget_tokens)),
                !.output_config = IF is_opus_or_sonnet_4_6
                                  THEN Some(OutputConfig("high"))
                                  ELSE @]

ModelBases ==
    {<<"c", "l", "a", "u", "d", "e", "-", "o", "p", "u", "s", "-", "4", "-", "6">>,
     <<"C", "l", "a", "u", "d", "e", "-", "S", "o", "n", "n", "e", "t", "-", "4",
  ".", "6">>,
     <<"c", "l", "a", "u", "d", "e", "-", "o", "p", "u", "s", "-", "4", "-", "5">>,
     <<"c", "l", "a", "u", "d", "e", "-", "s", "o", "n", "n", "e", "t", "-", "4",
  "-", "5">>,
     <<"c", "l", "a", "u", "d", "e", "-", "h", "a", "i", "k", "u", "-", "4", ".",
  "6">>,
     <<"t", "h", "i", "n", "k", "i", "n", "g", "-", "m", "o", "d", "e", "l", "-",
  "v", "2">>}

ModelTails ==
    {<<>>,
     <<"-", "t", "h", "i", "n", "k", "i", "n", "g">>,
     <<"-", "t", "h", "i", "n", "k", "i", "n", "g", "-", "m", "i", "n", "i", "m",
  "a", "l">>,
     <<"-", "t", "h", "i", "n", "k", "i", "n", "g", "-", "l", "o", "w">>,
     <<"-", "t", "h", "i", "n", "k", "i", "n", "g", "-", "m", "e", "d", "i", "u",
  "m">>,
     <<"-", "T", "H", "I", "N", "K", "I", "N", "G", "-", "H", "I", "G", "H">>,
     <<"-", "t", "h", "i", "n", "k", "i", "n", "g", "-", "x", "h", "i", "g", "h">>,
     <<"-", "t", "h", "i", "n", "k", "i", "n", "g", "-", "v", "2">>,
     <<"-", "T", "h", "i", "n", "k", "i", "n", "g">>}

ModelNames == {b \o t : b \in ModelBases, t \in ModelTails}

NoThinking == [some |-> FALSE, v |-> Thinking("none", 0)]

NoOutputConfig == [some |-> FALSE, v |-> OutputConfig("none")]

Payloads ==
    {[model |-> m, thinking |-> t, output_config |-> o] :
        m \in ModelNames,
        t \in {NoThinking, Some(Thinking("enabled", 1000))},
        o \in {NoOutputConfig, Some(OutputConfig("low"))}}

ThinkingInit ==
    /\ PipeIdle /\ StreamIdle /\ ReplyIdle /\ AdminIdle
    /\ text_pc = "ready"
    /\ text_fn = "none"
    /\ text_in \in Payloads
    /\ text_cap = 0
    /\ text_out = <<>>
    /\ text_again = <<>>

\* post_messages and post_messages_cc start with the override.
OverrideThinking ==
    \E is_opus_4_6 \in BOOLEAN :
        Applied("override_thinking_from_model_name",
                override_thinking_from_model_name(text_in, is_opus_4_6))

ThinkingNext == OverrideThinking

SpecThinking == ThinkingInit /\ [][ThinkingNext]_vars

\* ------------------------------------------------------------------------
\* admin/service.rs: AdminService::set_disabled on the shared credential pool
\*
\* The pool is the one shared mutable state; each of its operations is a
\* critical section of its own. Entries are numbered from 0; an entry is
\* eligible when it is not disabled (expiry is left out).

MaxCredentials == 3

Indices == 0 .. MaxCredentials - 1

Eligible(p, i) == ~p.disabled[i + 1]

MinOf(S) == CHOOSE x \in S : \A y \in S : x <= y

\* switch_to_next: the selection moves forward to the next eligible entry
\* after the current one; with no other eligible entry it stays.
switch_to_next(p) ==
    LET n == Len(p.disabled)
        steps == {k \in 1 .. n - 1 : Eligible(p, (p.current_index + k) % n)}
    IN IF steps = {} THEN p
       ELSE [p EXCEPT !.current_index = (@ + MinOf(steps)) % n]

set_disabled_in_range(p, index) == index < Len(p.disabled)

set_disabled(p, index, disabled) ==
    [p EXCEPT !.disabled[index + 1] = disabled]

\* report_failure at the threshold: the entry is disabled, and a pool whose
\* current entry it was moves on.
report_failure(p, index) ==
    LET q == set_disabled(p, index, TRUE)
    IN IF q.current_index = index THEN switch_to_next(q) ELSE q

reset_and_enable(p, index) == set_disabled(p, index, FALSE)

AdminFrame == UNCHANGED <<pipeVars, textVars, streamVars, replyVars>>

AdminInit ==
    /\ PipeIdle /\ TextIdle /\ StreamIdle /\ ReplyIdle
    /\ pool = [disabled |-> [i \in 1 .. MaxCredentials |-> FALSE],
               current_index |-> 0]
    /\ admin_pc = "idle"
    /\ admin_index = 0
    /\ admin_disabled = FALSE
    /\ admin_current_index = 0
    /\ admin_result = "none"

\* set_disabled is called; its first statement reads the snapshot.
AdminSnapshot ==
    /\ admin_pc \in {"idle", "returned"}
    /\ \E index \in 0 .. MaxCredentials, disabled \in BOOLEAN :
          /\ admin_index' = index
          /\ admin_disabled' = disabled
    /\ admin_current_index' = pool.current_index
    /\ admin_result' = "none"
    /\ admin_pc' = "snapshot"
    /\ UNCHANGED pool
    /\ AdminFrame

\* token_manager.set_disabled(index, disabled)?, then the test of the
\* local current_index; the function returns here when it does not switch.
AdminSetDisabled ==
    /\ admin_pc = "snapshot"
    /\ IF ~set_disabled_in_range(pool, admin_index)
       THEN /\ pool' = pool
            /\ admin_result' = "err"
            /\ admin_pc' = "returned"
       ELSE /\ pool' = set_disabled(pool, admin_index, admin_disabled)
            /\ IF admin_disabled /\ admin_index = admin_current_index
               THEN admin_pc' = "switch" /\ admin_result' = "none"
               ELSE admin_pc' = "returned" /\ admin_result' = "ok"
    /\ UNCHANGED <<admin_index, admin_disabled, admin_current_index>>
    /\ AdminFrame

\* let _ = token_manager.switch_to_next(); Ok(())
AdminSwitchToNext ==
    /\ admin_pc = "switch"
    /\ pool' = switch_to_next(pool)
    /\ admin_result' = "ok"
    /\ admin_pc' = "returned"
    /\ UNCHANGED <<admin_index, admin_disabled, admin_current_index>>
    /\ AdminFrame

\* Another request moves the pool's selection.
RequestSwitchToNext ==
    /\ pool' = switch_to_next(pool)
    /\ pool' # pool
    /\ UNCHANGED <<admin_pc, admin_index, admin_disabled, admin_current_index,
                   admin_result>>
    /\ AdminFrame

\* Another request reports the failure that disables its credential.
RequestReportFailure ==
    /\ \E index \in Indices :
          /\ Eligible(pool, index)
          /\ pool' = report_failure(pool, index)
    /\ UNCHANGED <<admin_pc, admin_index, admin_disabled, admin_current_index,
                   admin_result>>
    /\ AdminFrame

\* Another admin call: AdminService::reset_and_enable.
AdminResetAndEnable ==
    /\ \E index \in Indices :
          /\ ~Eligible(pool, index)
          /\ pool' = reset_and_enable(pool, index)
    /\ UNCHANGED <<admin_pc, admin_index, admin_disabled, admin_current_index,
                   admin_result>>
    /\ AdminFrame

AdminNext ==
    \/ AdminSnapshot
    \/ AdminSetDisabled
    \/ AdminSwitchToNext
    \/ RequestSwitchToNext
    \/ RequestReportFailure
    \/ AdminResetAndEnable

SpecAdmin == AdminInit /\ [][AdminNext]_vars

\* ------------------------------------------------------------------------
\* Properties of the request handler

Compressed == pc \in {"serialized", "shrink", "precheck", "done", "dispatched"}

PairingClosed(state) ==
    /\ all_tool_result_ids(state) \subseteq history_tool_use_ids(state.history)
    /\ history_tool_use_ids(state.history) \subseteq all_tool_result_ids(state)

\* C1: with compression enabled, after compress has run and after every
\* iteration of the adaptive loop, every tool result of the history and of
\* current_message has the id of a tool use of the history, and every tool
\* use of the history has the id of one of these tool results.
C1_PairingClosed ==
    (Compressed /\ config.enabled) => PairingClosed(conversation_state)

\* An unpaired input, shrunk by at least one iteration, with pairs left.
C1_Witness ==
    /\ pc = "shrink" /\ outcome.iters > 0
    /\ ~PairingClosed(input_state)
    /\ history_tool_use_ids(input_state.history) \ all_tool_result_ids(input_state) # {}
    /\ all_tool_result_ids(conversation_state) # {}

\* C2: under a budget max_request_body_bytes > 0, a request whose final body
\* is longer than the budget is answered 400 and the provider is not called;
\* every body handed to the provider, on either route, stream or not, is
\* within the budget, compression enabled or not.
C2_BudgetOrRefusal ==
    max_body > 0 =>
        /\ \A k \in 1..Len(provider_calls) : provider_calls[k].body.len <= max_body
        /\ (pc \in {"done", "dispatched"} /\ request_body.len > max_body)
              => (response = 400 /\ provider_calls = <<>>)

\* Refused after the loop has run, the body still over the budget.
C2_Witness ==
    /\ pc = "done" /\ response = 400 /\ provider_calls = <<>>
    /\ outcome.iters > 0 /\ request_body.len > max_body

\* C3: each iteration of the adaptive loop (the move, compress, the new
\* serialization) leaves the body no longer than it was before it.
C3_MonotoneLoop ==
    [][(pc = "shrink" /\ pc' = "shrink") => request_body'.len <= request_body.len]_vars

\* C4: the loop runs at most ADAPTIVE_COMPRESSION_MAX_ITERS iterations, and
\* it ends before that only with the body within the budget at the top of
\* an iteration, or after a move that changed nothing in the conversation
\* and its thresholds.
C4_LoopStops ==
    [][/\ outcome'.iters <= ADAPTIVE_COMPRESSION_MAX_ITERS
       /\ (pc = "shrink" /\ pc' = "precheck"
             /\ outcome.iters < ADAPTIVE_COMPRESSION_MAX_ITERS)
            => \/ request_body.len <= max_body
               \/ /\ conversation_state' = conversation_state
                  /\ adaptive_config' = adaptive_config]_vars

\* C5: for a history of at least two messages, the first two messages after
\* the pipeline equal the first two before it.
C5_SystemPairEqual ==
    (Compressed /\ Len(input_state.history) >= 2) =>
        /\ Len(conversation_state.history) >= 2
        /\ SubSeq(conversation_state.history, 1, 2) = SubSeq(input_state.history, 1, 2)

\* C5, amended: history truncation and the adaptive drain keep the first
\* two messages in place: the history passed through compress_history_pass
\* or through the drain starts with the same two messages as before that
\* step, and the pipeline's result still starts with a user and an
\* assistant message when the input did.
C5_SystemPairKeptByTrimming ==
    (Compressed /\ Len(input_state.history) >= 2) =>
        /\ Len(conversation_state.history) >= 2
        /\ \A i \in 1..2 :
              conversation_state.history[i].role = input_state.history[i].role
        /\ config.enabled =>
              LET s4 == compress_text_passes(input_state, config)
              IN SubSeq(compress_history_step(s4, config).history, 1, 2)
                    = SubSeq(s4.history, 1, 2)
        /\ pc = "shrink" =>
              LET m == shrink_move(conversation_state, adaptive_config,
                                   message_content_max_chars,
                                   has_any_tool_results_or_tools,
                                   has_any_tool_uses, max_body)
              IN m.turns > 0 =>
                    SubSeq(m.state.history, 1, 2)
                        = SubSeq(conversation_state.history, 1, 2)

\* History truncation has removed a turn.
C5_Witness ==
    /\ pc = "serialized" /\ config.enabled /\ config.max_history_turns > 0
    /\ Len(input_state.history) >= 2
    /\ Len(conversation_state.history) < Len(input_state.history)

\* C7: compress applied to its own result, with the same config, changes
\* nothing.
C7_CompressIdempotent ==
    pc = "serialized" => compress(conversation_state, config) = conversation_state

IsPlaceholder(msg) == msg.content = <<SP>>

\* C9: a content equal to the placeholder " " (history user, history
\* assistant, current_message) that stays in the state is still " " after
\* every step of the pipeline; removed messages are the ones after the
\* first two, so a kept message keeps its distance from the end.
C9_PlaceholderKept ==
    [][LET h == conversation_state.history
           h2 == conversation_state'.history
           d == Len(h) - Len(h2)
       IN /\ IsPlaceholder(conversation_state.current_message)
                => IsPlaceholder(conversation_state'.current_message)
          /\ \A i \in 1..Len(h2) :
                IsPlaceholder(h[IF i <= 2 THEN i ELSE i + d]) => IsPlaceholder(h2[i])
          /\ \A k \in TextCaps : truncate_long_content(<<SP>>, k) = <<SP>>]_vars

\* Placeholders in a user message, an assistant message and current_message
\* after the whitespace, thinking and long-message passes have run.
C9_Witness ==
    /\ pc = "precheck" /\ config.enabled /\ config.whitespace_compression
    /\ config.thinking_strategy # "keep"
    /\ outcome.final_message_content_max_chars > 0
    /\ IsPlaceholder(conversation_state.current_message)
    /\ \E i, j \in 1..Len(conversation_state.history) :
          /\ IsUser(conversation_state.history[i])
          /\ IsPlaceholder(conversation_state.history[i])
          /\ IsAssistant(conversation_state.history[j])
          /\ IsPlaceholder(conversation_state.history[j])

\* ------------------------------------------------------------------------
\* Properties of the text functions

\* The char counts of the texts between <thinking> and </thinking>.
RECURSIVE thinking_inner_lens(_)
thinking_inner_lens(text) ==
    LET start == find(text, THINK_OPEN) IN
    IF start = 0 THEN {}
    ELSE LET after_tag == SubSeq(text, start + Len(THINK_OPEN), Len(text))
             end == find(after_tag, THINK_CLOSE)
         IN IF end = 0 THEN {Len(after_tag)}
            ELSE {end - 1} \cup thinking_inner_lens(
                     SubSeq(after_tag, end + Len(THINK_CLOSE), Len(after_tag)))

CappedFns ==
    {"truncate_tool_result_content_1", "truncate_tool_result_content_2",
     "truncate_json_value_strings", "truncate_long_content"}

\* C6: a truncation's result has at most max_chars code points: a tool
\* result text, a tool_use input string, a user content; and the text inside
\* a thinking block after truncate_thinking_blocks.
C6_TruncationWithinCap ==
    text_pc = "applied" =>
        /\ (text_fn \in CappedFns /\ text_out # text_in) => Len(text_out) <= text_cap
        /\ text_fn = "truncate_thinking_blocks" =>
              \A n \in thinking_inner_lens(text_out) : n <= text_cap

\* C8: remove_thinking_blocks applied to its own result removes nothing.
C8_DiscardIdempotent ==
    (text_pc = "twice" /\ text_fn = "remove_thinking_blocks") => text_again = text_out

\* ------------------------------------------------------------------------
\* Properties of the stream

Positions(e) == {k \in 1..Len(sse) : sse[k] = e}

\* C10: the initial events come first, before every event of a frame and
\* every ping; the final events are yielded once, only after the upstream
\* ended or failed, and nothing follows them.
C10_StreamOrdering ==
    /\ sse # <<>> => SubSeq(sse, 1, Len(generate_initial_events(ctx)))
                        = generate_initial_events(ctx)
    /\ Cardinality(Positions("message_stop")) <= 1
    /\ Positions("message_stop") # {} =>
          /\ sse[Len(sse)] = "message_stop"
          /\ body_stream.chunks = <<>>
          /\ finished
    /\ (finished \/ stream_pc = "closed") =>
          /\ Cardinality(Positions("message_stop")) = 1
          /\ SubSeq(sse, Len(sse) - Len(generate_final_events(ctx)) + 1, Len(sse))
                = generate_final_events(ctx)

\* A closed stream that carried content and pings and whose upstream failed.
C10_Witness ==
    /\ stream_pc = "closed" /\ body_stream.ending = "error"
    /\ Positions("ping") # {} /\ Positions("content_block_delta") # {}
    /\ \E p \in Positions("ping"), q \in Positions("content_block_delta") : p < q

\* ------------------------------------------------------------------------
\* Properties of the buffered stream

Pings(n) == [k \in 1..n |-> "ping"]

\* C11: in buffered mode only pings are yielded until the upstream ends or
\* a chunk read fails; then all the events are yielded in one batch, after
\* which the stream ends: no ping and no event follows the batch.
C11_BufferedOrdering ==
    /\ ~finished => sse = Pings(ping_ticks)
    /\ finished =>
          /\ body_stream.chunks = <<>>
          /\ sse = Pings(ping_ticks) \o finish_and_get_all_events(ctx)
          /\ sse[Len(sse)] = "message_stop"
          /\ Cardinality(Positions("message_stop")) = 1

\* A closed buffered stream: pings, then a batch with content.
C11_Witness ==
    /\ stream_pc = "closed" /\ ping_ticks > 0
    /\ "buffer" \in DOMAIN ctx /\ ctx.buffer # <<>>
    /\ Positions("content_block_delta") # {}

\* ------------------------------------------------------------------------
\* Properties of the error mapping

HasText(s, p) == \E i \in 1..Len(s) : i + Len(p) - 1 <= Len(s) /\ SubSeq(s, i, i + Len(p) - 1) = p

\* C12: the error mapping classifies by first match: the text with
\* CONTENT_LENGTH_EXCEEDS_THRESHOLD or "Input is too long" gives 400
\* invalid_request_error; else with "Improperly formed request" 400
\* invalid_request_error; else with the all-credentials-exhausted marker 429
\* rate_limit_error; else 502 api_error.  So an input-too-long or
\* improperly-formed error is never answered 429 or 5xx.
C12_ErrorMapping ==
    (text_pc = "applied" /\ text_fn = "map_kiro_provider_error_to_response") =>
        LET too_long == HasText(text_in, CONTENT_LENGTH_EXCEEDS_THRESHOLD)
                          \/ HasText(text_in, INPUT_IS_TOO_LONG)
            improper == HasText(text_in, IMPROPERLY_FORMED_REQUEST)
            quota == HasText(text_in, ALL_CREDENTIALS_EXHAUSTED)
        IN /\ too_long => text_out = ErrorResponse(400, "invalid_request_error")
           /\ (~too_long /\ improper) =>
                 text_out = ErrorResponse(400, "invalid_request_error")
           /\ (~too_long /\ ~improper /\ quota) =>
                 text_out = ErrorResponse(429, "rate_limit_error")
           /\ (~too_long /\ ~improper /\ ~quota) =>
                 text_out = ErrorResponse(502, "api_error")
           /\ (too_long \/ improper) => text_out.status \notin {429} \cup 500..599

\* An error that carries both the quota marker and an input-too-long marker.
C12_Witness ==
    /\ text_pc = "applied" /\ text_fn = "map_kiro_provider_error_to_response"
    /\ HasText(text_in, ALL_CREDENTIALS_EXHAUSTED)
    /\ HasText(text_in, INPUT_IS_TOO_LONG)
    /\ text_in = ALL_CREDENTIALS_EXHAUSTED \o INPUT_IS_TOO_LONG
    /\ text_out.status = 400

\* ------------------------------------------------------------------------
\* Properties of the non-stream handler

\* The handler is about to take a ToolUse frame with stop = true.
AtStopFrame ==
    /\ reply_pc = "decoding"
    /\ decode_iter # <<>>
    /\ Head(decode_iter).kind = "ToolUse"
    /\ Head(decode_iter).stop

\* The text accumulated for the frame's id, the frame's own chunk included.
AccumulatedBuffer ==
    buffer_entry(tool_json_buffers, Head(decode_iter).tool_use_id)
      \o Head(decode_iter).input

\* C13: in the non-stream handler every ToolUse frame with stop = true
\* pushes one tool_use block with the frame's id and name, whose input is {}
\* when the accumulated buffer is blank or is not valid JSON; and once the
\* body was read the response is 200 and carries every block pushed.
C13_UnparsedInputBecomesEmptyObject ==
    [][/\ AtStopFrame =>
             /\ Len(tool_uses') = Len(tool_uses) + 1
             /\ SubSeq(tool_uses', 1, Len(tool_uses)) = tool_uses
             /\ LET block == tool_uses'[Len(tool_uses')]
                IN  /\ block.type = "tool_use"
                    /\ block.id = Head(decode_iter).tool_use_id
                    /\ block.name = Head(decode_iter).name
                    /\ (trim(AccumulatedBuffer) = <<>> \/ ~from_str(AccumulatedBuffer).ok)
                          => block.input = EmptyObject
       /\ (reply_pc = "decoding" /\ reply_pc' = "answered") =>
             /\ reply'.status = 200
             /\ \A i \in 1..Len(tool_uses) :
                    reply'.content[Len(reply'.content) - Len(tool_uses) + i] = tool_uses[i]
      ]_vars

\* A response whose content carries a tool_use block for a buffer that did
\* not parse, and one for a blank buffer.
C13_Witness ==
    /\ reply_pc = "answered"
    /\ reply.status = 200
    /\ Len(warnings) = 1
    /\ \E i, j \in 1..Len(reply.content) :
          /\ i # j
          /\ reply.content[i].type = "tool_use"
          /\ reply.content[i].id = warnings[1].tool_use_id
          /\ reply.content[i].input = EmptyObject
          /\ reply.content[j].type = "tool_use"
          /\ reply.content[j].id # warnings[1].tool_use_id
          /\ reply.content[j].input = EmptyObject

\* ------------------------------------------------------------------------
\* Properties of the tool input truncation

\* The first max_chars characters followed by "...[truncated N chars]".
Marked(s, max_chars) ==
    SubSeq(s, 1, max_chars) \o MARK_TRUNCATED \o Dec(Len(s) - max_chars) \o MARK_CHARS

\* What truncate_json_value_strings may make of one string.
TruncatedString(before, after, max_chars) ==
    /\ Utf8Len(after) <= Utf8Len(before)
    /\ Len(before) <= max_chars => after = before
    /\ Len(before) > max_chars =>
          \/ after = SubSeq(before, 1, max_chars)
          \/ /\ after = Marked(before, max_chars)
             /\ Utf8Len(Marked(before, max_chars)) < Utf8Len(before)
    /\ (before = Rep("a", 101) /\ max_chars = 100) => after = Rep("a", 100)

\* C14: truncate_json_value_strings never makes a string longer in UTF-8
\* bytes; a string within the cap is kept, a longer one becomes its first
\* max_chars characters, followed by the marker "...[truncated N chars]" only
\* when the marked form is strictly shorter in bytes than the original (101
\* ASCII characters at cap 100 become exactly the first 100).
C14_InputTruncationNeverExpands ==
    /\ (text_pc \in {"applied", "twice"} /\ text_fn = "truncate_json_value_strings") =>
          TruncatedString(text_in, text_out, text_cap)
    /\ (text_pc \in {"applied", "twice"}
          /\ text_fn = "truncate_json_value_strings_nested") =>
          LET before == StringsOf(NestedInput(text_in))
              after == StringsOf(text_out)
          IN  /\ Len(after) = Len(before)
              /\ \A i \in 1..Len(before) :
                    TruncatedString(before[i], after[i], text_cap)

\* 101 ASCII characters at cap 100: the marked form would be longer.
C14_Witness ==
    /\ text_pc = "applied"
    /\ text_fn = "truncate_json_value_strings"
    /\ text_in = Rep("a", 101)
    /\ text_cap = 100
    /\ text_out = Rep("a", 100)
    /\ Utf8Len(Marked(text_in, text_cap)) > Utf8Len(text_in)

\* ------------------------------------------------------------------------
\* Properties of the history truncation

\* The turns the loop removes from len messages with max_history_turns = n:
\* the least k with len - 2k <= 2 + 2n or len - 2k <= 4.
TurnsRemoved(len, n) ==
    LET stops(k) == len - 2 * k <= 2 + 2 * n \/ len - 2 * k <= 4
    IN  CHOOSE k \in 0..len : stops(k) /\ \A j \in 0..(k - 1) : ~stops(j)

\* C15: with max_history_turns = N > 0 the pass removes the messages at
\* indices 2 and 3 while the history has more than 2 + 2N and more than 4
\* messages: nothing is removed from 4 messages or fewer, and what remains
\* is the first two messages followed by a suffix of the original, in
\* order (a system pair and 5 turns with N = 2 leave 6 messages).
C15_TruncationByTurns ==
    (text_pc = "applied" /\ text_fn = "compress_history_pass_turns" /\ text_cap > 0) =>
        LET len == Len(text_in)
            k == TurnsRemoved(len, text_cap)
        IN  /\ text_out = SubSeq(text_in, 1, Min2(len, 2))
                             \o SubSeq(text_in, 3 + 2 * k, len)
            /\ len <= 4 => text_out = text_in
            /\ (len = 12 /\ text_cap = 2) => Len(text_out) = 6

\* A system pair and 5 turns, N = 2: the last two turns follow the pair.
C15_Witness ==
    /\ text_pc = "applied"
    /\ text_fn = "compress_history_pass_turns"
    /\ text_cap = 2
    /\ text_in = HistoryOf(12, TRUE)
    /\ text_out = SubSeq(text_in, 1, 2) \o SubSeq(text_in, 9, 12)

\* ------------------------------------------------------------------------
\* Properties of the master switch

\* C16: with enabled = false, compress leaves the conversation as it was (no
\* pass runs, the pairing repair included) and returns all-zero statistics,
\* and adaptive_shrink_request_body leaves the request and request_body as
\* they were.
C16_MasterSwitch ==
    [][~config.enabled =>
          /\ conversation_state' = conversation_state
          /\ pc = "received" =>
                /\ stats' = ZeroStats
                /\ request_body' = to_string(conversation_state)
          /\ pc = "serialized" =>
                /\ request_body' = request_body
                /\ adaptive_config' = adaptive_config
                /\ outcome' = NoOutcome
      ]_vars

\* A disabled pipeline past the shrinking step, with a body over the budget
\* and a conversation that the enabled pipeline would have rewritten and
\* repaired.
C16_Witness ==
    /\ pc = "precheck"
    /\ ~config.enabled
    /\ max_body > 0
    /\ request_body.len > max_body
    /\ conversation_state = input_state
    /\ stats = ZeroStats
    /\ ~PairingClosed(input_state)
    /\ compress_stats(input_state, [config EXCEPT !.enabled = TRUE]) # ZeroStats

\* ------------------------------------------------------------------------
\* Properties of the thinking override

\* The budget of the suffix a lower-cased model name ends with, 0 for none.
SuffixBudget(model_lower) ==
    LET budgets == <<[suffix |-> SUFFIX_MINIMAL, budget |-> 512],
                     [suffix |-> SUFFIX_LOW, budget |-> 1024],
                     [suffix |-> SUFFIX_MEDIUM, budget |-> 8192],
                     [suffix |-> SUFFIX_HIGH, budget |-> 24576],
                     [suffix |-> SUFFIX_XHIGH, budget |-> 32768],
                     [suffix |-> SUFFIX_THINKING, budget |-> 20000]>>
        fit == {i \in 1..Len(budgets) : ends_with(model_lower, budgets[i].suffix)}
    IN  IF fit = {} THEN 0 ELSE budgets[Min(fit)].budget

\* C17: a model name that, lower-cased, ends with -thinking-minimal, -low,
\* -medium, -high, -xhigh or -thinking sets thinking to the budget 512, 1024,
\* 8192, 24576, 32768 or 20000; when the name also contains opus or sonnet
\* together with 4-6 or 4.6 the type is adaptive and output_config.effort is
\* high, otherwise the type is enabled and output_config is untouched; any
\* other name leaves the payload unchanged.
C17_SuffixOverride ==
    (text_pc = "applied" /\ text_fn = "override_thinking_from_model_name") =>
        LET model_lower == to_lowercase(text_in.model)
            budget == SuffixBudget(model_lower)
            four_six ==
                /\ contains(model_lower, OPUS) \/ contains(model_lower, SONNET)
                /\ contains(model_lower, FOUR_DASH_SIX) \/ contains(model_lower, FOUR_DOT_SIX)
        IN  IF budget = 0 THEN text_out = text_in
            ELSE /\ text_out.model = text_in.model
                 /\ text_out.thinking =
                        Some(Thinking(IF four_six THEN "adaptive" ELSE "enabled", budget))
                 /\ text_out.output_config =
                        IF four_six THEN Some(OutputConfig("high"))
                        ELSE text_in.output_config

\* ------------------------------------------------------------------------
\* Properties of the truncation heuristics

\* C18: detect_truncation gives every accumulated input that failed to
\* parse exactly one class, by the first rule that fits: blank is
\* EmptyInput, else an unclosed string is IncompleteString, else unbalanced
\* or mismatched brackets outside strings are InvalidJson, and anything else
\* is MissingFields.
C18_DetectTruncationTotal ==
    \A i \in 1..Len(warnings) :
        LET trimmed == trim(warnings[i].raw_input)
        IN  warnings[i].truncation =
                Some(IF trimmed = <<>> THEN "EmptyInput"
                     ELSE IF has_unclosed_string(trimmed) THEN "IncompleteString"
                     ELSE IF ~are_brackets_balanced(trimmed) THEN "InvalidJson"
                     ELSE "MissingFields")

\* ------------------------------------------------------------------------
\* Properties of the adaptive loop

\* The loop body runs in this step.
Iterating ==
    /\ pc = "shrink"
    /\ outcome.iters < ADAPTIVE_COMPRESSION_MAX_ITERS
    /\ request_body.len > max_body

\* The move that the priority order selects for the conversation as it is
\* at the start of the iteration, 0 when no move applies.
SelectedMove ==
    IF /\ has_any_tool_results_or_tools_of(conversation_state)
       /\ adaptive_config.tool_result_max_chars > ADAPTIVE_MIN_TOOL_RESULT_MAX_CHARS
    THEN 1
    ELSE IF /\ has_any_tool_uses_of(conversation_state)
            /\ adaptive_config.tool_use_input_max_chars
                  > ADAPTIVE_MIN_TOOL_USE_INPUT_MAX_CHARS
    THEN 2
    ELSE IF /\ \/ max_single_user_content_bytes_of(conversation_state) > max_body
               \/ Len(conversation_state.history) <= ADAPTIVE_HISTORY_PRESERVE_MESSAGES + 2
            /\ message_content_max_chars >= ADAPTIVE_MIN_MESSAGE_CONTENT_MAX_CHARS
    THEN 3
    ELSE IF Len(conversation_state.history) > ADAPTIVE_HISTORY_PRESERVE_MESSAGES + 2
    THEN 4
    ELSE 0

ThresholdStep(old, new, floor) ==
    /\ new <= old
    /\ new >= floor
    /\ new < old => new = Max2(floor, (old * 3) \div 4)

\* C20: in the adaptive loop tool_result_max_chars never rises and never
\* falls below min(initial, 512), tool_use_input_max_chars never rises and
\* never falls below min(initial, 256), message_content_max_chars never
\* rises and is always at least 8192; and a move that lowers a threshold
\* lowers it strictly, to max(floor, current * 3 / 4).
C20_ThresholdFloors ==
    [][/\ ThresholdStep(adaptive_config.tool_result_max_chars,
                        adaptive_config'.tool_result_max_chars,
                        Min2(config.tool_result_max_chars,
                             ADAPTIVE_MIN_TOOL_RESULT_MAX_CHARS))
       /\ ThresholdStep(adaptive_config.tool_use_input_max_chars,
                        adaptive_config'.tool_use_input_max_chars,
                        Min2(config.tool_use_input_max_chars,
                             ADAPTIVE_MIN_TOOL_USE_INPUT_MAX_CHARS))
       /\ pc = "shrink" =>
             ThresholdStep(message_content_max_chars, message_content_max_chars',
                           ADAPTIVE_MIN_MESSAGE_CONTENT_MAX_CHARS)
       /\ (Iterating /\ SelectedMove = 1) =>
             adaptive_config'.tool_result_max_chars
               < adaptive_config.tool_result_max_chars
       /\ (Iterating /\ SelectedMove = 2) =>
             adaptive_config'.tool_use_input_max_chars
               < adaptive_config.tool_use_input_max_chars
      ]_vars

\* The loop has ended after both tool thresholds were lowered to their
\* floors and the long-message threshold was used at its floor.
C20_Witness ==
    /\ pc = "precheck"
    /\ config.tool_result_max_chars > ADAPTIVE_MIN_TOOL_RESULT_MAX_CHARS
    /\ adaptive_config.tool_result_max_chars = ADAPTIVE_MIN_TOOL_RESULT_MAX_CHARS
    /\ config.tool_use_input_max_chars > ADAPTIVE_MIN_TOOL_USE_INPUT_MAX_CHARS
    /\ adaptive_config.tool_use_input_max_chars = ADAPTIVE_MIN_TOOL_USE_INPUT_MAX_CHARS
    /\ outcome.final_message_content_max_chars = ADAPTIVE_MIN_MESSAGE_CONTENT_MAX_CHARS
    /\ message_content_max_chars = ADAPTIVE_MIN_MESSAGE_CONTENT_MAX_CHARS


\* ------------------------------------------------------------------------
\* Properties of the history drain

\* The move of the iteration that starts in this state.
NextMove ==
    shrink_move(conversation_state, adaptive_config, message_content_max_chars,
                has_any_tool_results_or_tools, has_any_tool_uses, max_body)

\* C21: the history drain of an adaptive iteration removes one block of
\* messages that starts at index 2: the first two messages stay, the rest
\* moves up by the number removed, which is even, at most 16 and twice the
\* turns recorded; at least 4 messages are left; a history of 4 or fewer
\* messages is never drained, and no other move changes the length.
C21_DrainWholeTurns ==
    Iterating =>
        LET h == conversation_state.history
            h2 == NextMove.state.history
            n == Len(h) - Len(h2)
        IN  /\ n >= 0 /\ n = 2 * NextMove.turns
            /\ n <= 16
            /\ Len(h) <= 4 => n = 0
            /\ n > 0 =>
                  /\ Len(h2) >= 4
                  /\ \A i \in 1..2 : h2[i] = h[i]
                  /\ \A i \in 3..Len(h2) : h2[i] = h[i + n]

\* An iteration that drains a history of more than 20 messages: the cap
\* of 16 applies.
C21_Witness ==
    /\ Iterating
    /\ Len(conversation_state.history) > 20
    /\ NextMove.turns = 8
    /\ Len(NextMove.state.history) = Len(conversation_state.history) - 16


\* ------------------------------------------------------------------------
\* Properties of the order of tool uses and tool results

\* The positions of the assistant messages of the history with a tool use
\* of this id.
UsePositions(state, id) ==
    {i \in 1..Len(state.history) :
        /\ IsAssistant(state.history[i])
        /\ state.history[i].tool_uses.some
        /\ \E k \in 1..Len(state.history[i].tool_uses.v) :
              state.history[i].tool_uses.v[k].tool_use_id = id}

\* The ids of the tool results at a position, current_message being the
\* position after the last of the history.
ResultIdsAt(state, p) ==
    IF p = Len(state.history) + 1
    THEN {tr.tool_use_id : tr \in Range(state.current_message.tool_results)}
    ELSE IF IsUser(state.history[p])
    THEN {tr.tool_use_id : tr \in Range(state.history[p].tool_results)}
    ELSE {}

\* Every tool result has a tool use with its id, and the tool uses with
\* its id (one, ids being unique within a conversation) are in assistant
\* messages at earlier positions.
OrderedPairing(state) ==
    \A p \in 1..(Len(state.history) + 1) :
        \A id \in ResultIdsAt(state, p) :
            /\ UsePositions(state, id) # {}
            /\ \A q \in UsePositions(state, id) : q < p

\* C22: when in the input every tool result's matching tool use is in an
\* assistant message at an earlier position than the message with the
\* result (current_message counting as last), the same holds after
\* compress and after every iteration of the adaptive loop.
C22_OrderedPairingKept ==
    (Compressed /\ OrderedPairing(input_state)) => OrderedPairing(conversation_state)

\* An ordered input with tool results, of which the pipeline has removed a
\* turn and a tool result, leaving a result paired in order.
C22_Witness ==
    /\ Compressed /\ config.enabled
    /\ OrderedPairing(input_state)
    /\ Len(conversation_state.history) < Len(input_state.history)
    /\ all_tool_result_ids(conversation_state) # {}
    /\ all_tool_result_ids(conversation_state) # all_tool_result_ids(input_state)


\* ------------------------------------------------------------------------
\* Properties of the alternation of roles

\* user, assistant, user, ... starting with user.
Alternates(history) ==
    \A i \in 1..Len(history) :
        history[i].role = IF i % 2 = 1 THEN "user" ELSE "assistant"

\* The history after passes 1 to 4 of the first compress, which
\* compress_history_pass is given.
HistoryBeforeTrimming == compress_text_passes(input_state, config).history

\* C23: when the history of the input alternates user/assistant starting
\* with user, so does the history after the turn-count sub-pass, after the
\* character-count sub-pass, after the drain of every adaptive iteration
\* and at every point of the pipeline after compress.
C23_AlternationKept ==
    (Compressed /\ Alternates(input_state.history)) =>
        /\ Alternates(conversation_state.history)
        /\ (config.enabled /\ config.max_history_turns > 0) =>
              Alternates(truncate_by_turns(HistoryBeforeTrimming,
                                           preserve_count + config.max_history_turns * 2))
        /\ (config.enabled /\ config.max_history_chars > 0) =>
              Alternates(truncate_by_chars(HistoryBeforeTrimming,
                                           config.max_history_chars))
        /\ Iterating => Alternates(NextMove.state.history)

\* The character sub-pass has removed turns from an alternating history,
\* and the adaptive loop has drained more.
C23_Witness ==
    /\ Compressed /\ config.enabled /\ config.max_history_chars > 0
    /\ Alternates(input_state.history)
    /\ Len(truncate_by_chars(HistoryBeforeTrimming, config.max_history_chars))
          < Len(input_state.history)
    /\ outcome.additional_history_turns_removed > 0


\* ------------------------------------------------------------------------
\* Properties of the smart truncation

\* head_lines = tail_lines of the tool-result truncation applied.
AppliedLines ==
    IF text_fn = "truncate_tool_result_content_1" THEN 1
    ELSE IF text_fn = "truncate_tool_result_content_2" THEN 2
    ELSE 0

\* A tool-result text over the cap with more lines than are kept has been
\* truncated.
LineTruncated ==
    /\ text_pc = "applied" /\ AppliedLines > 0
    /\ Len(text_in) > text_cap
    /\ Len(lines(text_in)) > AppliedLines + AppliedLines

\* The first head_lines lines, "\n... [L lines omitted (C chars)] ...\n" and
\* the last tail_lines lines, L being the lines left out and C the
\* characters of the text that are in neither part.
HeadMarkerTail(text, head_lines, tail_lines) ==
    LET ls == lines(text)
        head_part == join_nl(SubSeq(ls, 1, head_lines))
        tail_part == join_nl(SubSeq(ls, Len(ls) - tail_lines + 1, Len(ls)))
    IN  head_part \o MARK_OPEN \o Dec(Len(ls) - head_lines - tail_lines)
          \o MARK_LINES_OMITTED
          \o Dec(Len(text) - Len(head_part) - Len(tail_part))
          \o MARK_CHARS_CLOSE \o tail_part

\* C24: a tool_result text with more than tool_result_max_chars characters
\* and more than head_lines + tail_lines lines is truncated to its first
\* head_lines lines, the marker "[L lines omitted (C chars)]" with
\* L = total lines - head_lines - tail_lines, and its last tail_lines
\* lines.
C24_HeadAndTailKept ==
    LineTruncated => text_out = HeadMarkerTail(text_in, AppliedLines, AppliedLines)

\* C24, amended: the truncated text is that assembly when the assembly has
\* at most tool_result_max_chars characters, and otherwise the first
\* tool_result_max_chars characters of the assembly (the tail, the marker
\* and even part of the head may be cut off).
C24_HeadAndTailKeptWithinCap ==
    LineTruncated =>
        LET full == HeadMarkerTail(text_in, AppliedLines, AppliedLines)
        IN  text_out = IF Len(full) > text_cap THEN SubSeq(full, 1, text_cap) ELSE full

\* A text of five lines truncated to its first two and last two lines,
\* the assembly within the cap.
C24_Witness ==
    /\ LineTruncated /\ AppliedLines = 2
    /\ text_out = HeadMarkerTail(text_in, 2, 2)
    /\ Len(text_out) <= text_cap


\* ------------------------------------------------------------------------
\* Properties of the non-stream response

\* The response body has a ContextUsage frame at 100% or more.
ContextExceededSeen ==
    \E k \in 1..Len(body_bytes) :
        /\ body_bytes[k].kind = "ContextUsage"
        /\ body_bytes[k].context_usage_percentage >= 100

\* The response body has a ContentLengthExceededException frame.
ContentLengthExceededSeen ==
    \E k \in 1..Len(body_bytes) :
        /\ body_bytes[k].kind = "Exception"
        /\ body_bytes[k].exception_type = "ContentLengthExceededException"

\* The content of the response has a tool_use block.
ToolUseInContent ==
    \E k \in 1..Len(reply.content) : reply.content[k].type = "tool_use"

\* C25: the stop_reason of the non-stream response is tool_use exactly
\* when the content has a tool_use block and the body had no ContextUsage
\* frame at 100% or more and no ContentLengthExceededException frame; it is
\* model_context_window_exceeded or max_tokens when the body had such a
\* frame; otherwise it is end_turn.
C25_FinalStopReason ==
    (reply_pc = "answered" /\ reply.status = 200) =>
        LET other == ContextExceededSeen \/ ContentLengthExceededSeen
        IN  /\ reply.stop_reason = "tool_use" <=> (ToolUseInContent /\ ~other)
            /\ other => reply.stop_reason \in {"model_context_window_exceeded",
                                                "max_tokens"}
            /\ (~ToolUseInContent /\ ~other) => reply.stop_reason = "end_turn"


\* The frames of the body that the loop has handled.
Handled == SubSeq(body_bytes, 1, Len(body_bytes) - Len(decode_iter))

IsToolUseOf(frame, id) == frame.kind = "ToolUse" /\ frame.tool_use_id = id

\* The position of the last stop frame of this id before position k, 0
\* when there is none.
PreviousStop(frames, k, id) ==
    LET stops == {j \in 1..(k - 1) : IsToolUseOf(frames[j], id) /\ frames[j].stop}
    IN  IF stops = {} THEN 0 ELSE CHOOSE j \in stops : \A i \in stops : i <= j

\* The input chunks of this id at the positions lo..hi, concatenated in
\* arrival order.
RECURSIVE ChunksOf(_, _, _, _)
ChunksOf(frames, lo, hi, id) ==
    IF lo > hi THEN <<>>
    ELSE (IF IsToolUseOf(frames[lo], id) THEN frames[lo].input ELSE <<>>)
            \o ChunksOf(frames, lo + 1, hi, id)

\* One block for each stop frame, in the order of the stop frames: its
\* input is parsed from the chunks of its id since that id's previous stop.
RECURSIVE BlocksOf(_, _)
BlocksOf(frames, k) ==
    IF k = 0 THEN <<>>
    ELSE BlocksOf(frames, k - 1)
           \o (IF frames[k].kind = "ToolUse" /\ frames[k].stop
               THEN LET id == frames[k].tool_use_id
                        text == ChunksOf(frames, PreviousStop(frames, k, id) + 1, k, id)
                    IN  <<ToolUseBlock(id, frames[k].name, tool_input(text).input)>>
               ELSE <<>>)

\* C26: with ToolUse frames of different ids interleaved, the tool_use
\* blocks pushed are one for each stop frame, in the order of the stop
\* frames, each with the input parsed from the concatenation in arrival
\* order of exactly the chunks of its id since that id's previous stop;
\* and the buffer of an id holds exactly the chunks of that id since its
\* last stop, whatever frames of other ids came between.
C26_PerIdAssembly ==
    reply_pc \in {"decoding", "answered"} =>
        /\ tool_uses = BlocksOf(Handled, Len(Handled))
        /\ \A id \in ToolIds :
              buffer_entry(tool_json_buffers, id)
                = ChunksOf(Handled, PreviousStop(Handled, Len(Handled) + 1, id) + 1,
                           Len(Handled), id)

\* A chunk of t1, a frame of t2, the stop frame of t1: the block of t1 has
\* the object parsed from the two chunks of t1.
C26_Witness ==
    /\ reply_pc = "answered" /\ Len(body_bytes) = 3
    /\ IsToolUseOf(body_bytes[1], "t1") /\ ~body_bytes[1].stop
    /\ body_bytes[1].input # <<>>
    /\ IsToolUseOf(body_bytes[2], "t2") /\ body_bytes[2].input # <<>>
    /\ IsToolUseOf(body_bytes[3], "t1") /\ body_bytes[3].stop
    /\ \E k \in 1..Len(reply.content) :
          /\ reply.content[k].id = "t1"
          /\ reply.content[k].input = <<"{", QUOTE, "a", QUOTE, ":", "1", "}">>


\* ------------------------------------------------------------------------
\* Properties of the keep-alive in buffered mode

\* C27: in buffered mode, whenever a tick of the ping timer is due, the
\* next thing the stream does is yield a ping: no chunk is read, nothing
\* else is yielded and the stream does not end before it, whatever the
\* body stream has ready. A tick that falls due while a chunk is handled
\* waits for that chunk only.
C27_PingNotStarved ==
    [][(stream_pc = "processing" /\ ~finished /\ ping_ready) =>
          /\ sse' = Append(sse, "ping")
          /\ body_stream' = body_stream
          /\ ctx' = ctx
          /\ ~finished'
      ]_vars

\* A ping yielded after a chunk was buffered and with chunks still to
\* read: the tick fell due while the body stream had more ready.
C27_Witness ==
    /\ stream_pc = "processing" /\ ~finished /\ ~ping_ready
    /\ ping_ticks > 0
    /\ sse # <<>> /\ sse[Len(sse)] = "ping"
    /\ ctx.buffer # <<>>
    /\ body_stream.chunks # <<>>


\* ------------------------------------------------------------------------
\* Properties of the bytes saved

\* The functions by which the text passes rewrite a field: whitespace,
\* thinking (discard, truncate), tool-result truncation, tool-use input
\* truncation, long-message truncation.
RewritingFns ==
    {"compress_string_field", "remove_thinking_blocks", "truncate_thinking_blocks",
     "truncate_tool_result_content_1", "truncate_tool_result_content_2",
     "truncate_json_value_strings", "truncate_long_content"}

\* C28: no text pass makes a field it rewrites longer in UTF-8 bytes, and
\* what a pass reports as saved for the field (the byte length before
\* minus the byte length after, counted when the field became shorter) is
\* the decrease of the field's byte length.
C28_NoPassEnlarges ==
    (text_pc = "applied" /\ text_fn \in RewritingFns) =>
        /\ Utf8Len(text_out) <= Utf8Len(text_in)
        /\ field_saved(text_in, text_out) = Utf8Len(text_in) - Utf8Len(text_out)


\* ------------------------------------------------------------------------
\* Properties of the serialized body

\* C29: whenever adaptive_shrink_request_body has returned, request_body
\* is the serialization of kiro_request as the function left it: the
\* conversation is never changed by a move without the body being
\* serialized again afterwards.
C29_BodyInSync ==
    pc \in {"precheck", "done", "dispatched"} =>
        request_body = to_string(conversation_state)


\* ------------------------------------------------------------------------
\* Properties of the admin service

AnotherEnabled(p, index) ==
    \E j \in 0 .. Len(p.disabled) - 1 : j # index /\ Eligible(p, j)

\* C30: when AdminService.set_disabled(index, true) returns Ok, the pool's
\* current credential is not index whenever another enabled credential
\* exists, and the service invokes switch_to_next only while index is the
\* pool's current credential, whatever the other requests do to the pool
\* between the service's three steps.
C30_AdminDisableMovesSelection ==
    [][/\ (admin_pc # "returned" /\ admin_pc' = "returned"
            /\ admin_result' = "ok" /\ admin_disabled
            /\ AnotherEnabled(pool', admin_index))
          => pool'.current_index # admin_index
       /\ (admin_pc = "switch" /\ admin_pc' = "returned")
          => pool.current_index = admin_index
      ]_vars

====
